---- MODULE Spec2Model ----
(***************************************************************************)
(* Chunked transcription core of AI_meeting_demo: silence-aware audio      *)
(* segmentation with hard-cut overlap fallback, the pipeline entry         *)
(* decision, and the batch dispatch of chunks to the transcription API.    *)
(*                                                                         *)
(* The Python implementation (utils/audio_processor.py,                    *)
(* services/transcription_service.py) is described by the documents under  *)
(* src/; where those documents are silent the behaviour is taken from the  *)
(* specification.  Times are integers in milliseconds.                     *)
(***************************************************************************)
EXTENDS Integers, Sequences, FiniteSets, TLC

VARIABLES
    cfg,          \* immutable configuration record
    audio,        \* AudioSource: run-length encoded energy profile, Seq of [len, level]
    size_bytes,   \* AudioSource.size_bytes
    pc,           \* position of the pipeline run
    cursor,       \* start_time of the chunk being cut
    boundaries,   \* ordered ChunkBoundary list produced so far
    log,          \* one log record per emitted chunk (threshold used, cut point)
    opc,          \* position of the orchestrator
    batch_start,  \* index of the first chunk of the current batch
    in_flight,    \* chunk indices whose transcription call has not settled
    outcome,      \* per chunk index: "none", "ok" or "failed"
    calls,        \* per chunk index: number of transcription calls made
    batches,      \* the batches dispatched so far, each a sequence of chunk indices
    api_segments, \* per chunk index: what the transcription API answers for that chunk
    results,      \* ChunkResults recorded so far
    cancelled,    \* the caller has asked for cancellation
    artifacts,    \* chunk indices whose exported audio file exists
    merged,       \* MergedTranscript handed to the caller, NoTranscript before
    errors,       \* per chunk index: the captured error of a failed chunk, "none" otherwise
    progress_updates, \* number of updates sent to the job progress sink
    pm_jobId,         \* ProcessingManager.jobId, "" when the URL has no job_id
    pm_pollInterval,  \* ProcessingManager.pollInterval is set
    pm_reqs,          \* status requests issued: "pending", a response, "handled" or "logged"
    pm_job,           \* status of the job on the backend
    pm_cancel,        \* the cancel request: "none", "pending", "ok", "error", "succeeded", "failed"
    pm_ui,            \* the status last shown by updateUI, "none" before
    pm_calls,         \* number of runs of updateUI, onComplete, onFailed, onCancelled, ...
    pm_timers,        \* targets of the scheduled redirects, in the order they fire
    pm_location,      \* the location the processing page was told to go to, "" before
    pm_page,          \* "live" while the processing page runs scripts, "unloaded" after
    up_selected,      \* the FileList of the last drop or file-input change
    up_sent,          \* the files handed to apiClient.uploadFile, in order
    up_errors,        \* the error messages shown by UploadManager, in order
    up_events,        \* number of drop / change events handled
    rec_mediaStream,   \* RecordingManager.mediaStream: the id of the stream, 0 for null
    rec_streams,       \* number of media streams obtained so far
    rec_requests,      \* permission requests awaited: who awaits it and how far it is
    rec_recorders,     \* the MediaRecorders created, each with its stream and state
    rec_isRecording,   \* RecordingManager.isRecording
    rec_isPaused,      \* RecordingManager.isPaused
    rec_startTime,     \* RecordingManager.startTime
    rec_elapsedTime,   \* RecordingManager.elapsedTime
    rec_timerInterval, \* RecordingManager.timerInterval: the id of the interval, 0 for null
    rec_intervals,     \* ids of the intervals set and not cleared
    rec_timerIds,      \* number of intervals set so far
    rec_now,           \* Date.now(), in timer periods
    rec_calls,         \* number of runs of onRecordingComplete
    rec_redirects,     \* redirects to the processing page scheduled and not fired
    rec_location,      \* the location the recording page was told to go to
    rec_page,          \* "live" while the recording page runs scripts, "unloaded" after
    set_settings,      \* SettingsManager.settings
    set_hasChanges,    \* SettingsManager.hasChanges
    set_stored,        \* localStorage item transcribeai_settings: <<>> or the one saved record
    set_events,        \* number of clicks and changes handled on the settings page
    set_click,         \* the last click or change handled on the settings page, "" before
    perm_collaborators, \* PermissionsManager.collaborators
    perm_items,         \* data-user-id of the collaborator items in the list on the page
    perm_toast,         \* the message of the last toast, "" before
    perm_click,         \* the last click or change handled, with the text of the invite input
    perm_now,           \* Date.now() on the permissions dialog
    perm_events         \* number of clicks and changes handled on the permissions dialog

segVars == <<cfg, audio, size_bytes, pc, cursor, boundaries, log>>
orchVars == <<opc, batch_start, in_flight, outcome, calls, batches,
              api_segments, results, cancelled, artifacts, merged,
              errors, progress_updates>>
vars == <<cfg, audio, size_bytes, pc, cursor, boundaries, log,
          opc, batch_start, in_flight, outcome, calls, batches,
          api_segments, results, cancelled, artifacts, merged,
          errors, progress_updates,
          pm_jobId, pm_pollInterval, pm_reqs, pm_job, pm_cancel, pm_ui, pm_calls,
          pm_timers, pm_location, pm_page,
          up_selected, up_sent, up_errors, up_events,
          rec_mediaStream, rec_streams, rec_requests, rec_recorders, rec_isRecording,
          rec_isPaused, rec_startTime, rec_elapsedTime, rec_timerInterval, rec_intervals,
          rec_timerIds, rec_now, rec_calls, rec_redirects, rec_location, rec_page,
          set_settings, set_hasChanges, set_stored, set_events, set_click,
          perm_collaborators, perm_items, perm_toast, perm_click, perm_now, perm_events>>

pmVars == <<pm_jobId, pm_pollInterval, pm_reqs, pm_job, pm_cancel, pm_ui, pm_calls,
            pm_timers, pm_location, pm_page>>
upVars == <<up_selected, up_sent, up_errors, up_events>>
recVars == <<rec_mediaStream, rec_streams, rec_requests, rec_recorders, rec_isRecording,
             rec_isPaused, rec_startTime, rec_elapsedTime, rec_timerInterval, rec_intervals,
             rec_timerIds, rec_now, rec_calls, rec_redirects, rec_location, rec_page>>
setVars == <<set_settings, set_hasChanges, set_stored, set_events, set_click>>
permVars == <<perm_collaborators, perm_items, perm_toast, perm_click, perm_now, perm_events>>
feVars == <<pmVars, upVars, recVars, setVars, permVars>>

----------------------------------------------------------------------------
(* Bounds of the explored inputs *)

MaxSlots == 8     \* longest scaled source, in unit runs
MaxRuns == 4      \* most runs of a source under the default configuration
MaxChunks == 8    \* most chunks handed to the orchestrator
MaxMergeChunks == 3   \* most chunks of a source with mixed cut strategies
MaxPolls == 3     \* most status requests issued by one processing page
MaxCancels == 2   \* most cancel requests issued by one processing page
MaxSelections == 2  \* most drop / change events on one upload page
MaxFiles == 2     \* most files in one FileList

----------------------------------------------------------------------------
(* Key parameters of the chunking algorithm *)

MIN_MS == 10 * 60 * 1000
MAX_MS == 15 * 60 * 1000
OVERLAP_MS == 5 * 1000
MIN_SILENCE_LEN == 500
SILENCE_THRESHOLDS == <<-50, -40, -35, -30, -25>>

BATCH_SIZE == 5

MAX_AUDIO_SIZE_MB == 20
MAX_AUDIO_DURATION_SECONDS == 1500

DefaultCfg ==
    [ min_chunk_ms |-> MIN_MS,
      max_chunk_ms |-> MAX_MS,
      overlap_ms |-> OVERLAP_MS,
      min_silence_ms |-> MIN_SILENCE_LEN,
      silence_thresholds_dbfs |-> SILENCE_THRESHOLDS,
      max_size_bytes |-> MAX_AUDIO_SIZE_MB * 1024 * 1024,
      max_duration_ms |-> MAX_AUDIO_DURATION_SECONDS * 1000,
      batch_size |-> BATCH_SIZE,
      chunking_enabled |-> TRUE ]

\* A configuration with the same ordering relations as the default one
\* (min_silence <= window width, 2 * overlap <= min < max), small enough
\* for every energy profile up to MaxSlots to be enumerated.
ScaledCfg ==
    [ min_chunk_ms |-> 4,
      max_chunk_ms |-> 7,
      overlap_ms |-> 2,
      min_silence_ms |-> 2,
      silence_thresholds_dbfs |-> SILENCE_THRESHOLDS,
      max_size_bytes |-> 20,
      max_duration_ms |-> 6,
      batch_size |-> 2,
      chunking_enabled |-> TRUE ]

\* ENABLE_CHUNKING=true / ENABLE_CHUNKING=false
Configs ==
    {[c EXCEPT !.chunking_enabled = b] : c \in {DefaultCfg, ScaledCfg}, b \in BOOLEAN}

\* Energy levels of a run, in dBFS: silent at every threshold, silent only
\* from -35 dBFS on, never silent.
Levels == {-60, -38, -10}

RunLens == {600, 700000}

Run(n, lv) == [len |-> n, level |-> lv]

RECURSIVE SeqsUpTo(_, _)
SeqsUpTo(S, n) ==
    IF n = 0 THEN {<<>>}
    ELSE LET shorter == SeqsUpTo(S, n - 1)
         IN  shorter \cup {Append(s, x) : s \in {t \in shorter : Len(t) = n - 1}, x \in S}

ScaledAudios == SeqsUpTo({Run(1, lv) : lv \in Levels}, MaxSlots)
DefaultAudios == SeqsUpTo({Run(n, lv) : n \in RunLens, lv \in Levels}, MaxRuns)

\* The 32 minute recording without any silence.
ContinuousNoise32 == <<Run(1920000, -10)>>

----------------------------------------------------------------------------
(* AudioProbe *)

RECURSIVE SumLen(_, _)
SumLen(a, n) == IF n = 0 THEN 0 ELSE a[n].len + SumLen(a, n - 1)

total_len == SumLen(audio, Len(audio))

RunStartAt(a, i) == SumLen(a, i - 1)

Min2(x, y) == IF x <= y THEN x ELSE y
Max2(x, y) == IF x >= y THEN x ELSE y

----------------------------------------------------------------------------
(* Silence detection over the search window (the detect_silence primitive) *)

RECURSIVE SortedSeq(_)
SortedSeq(S) ==
    IF S = {} THEN <<>>
    ELSE LET m == CHOOSE x \in S : \A y \in S : x <= y
         IN  <<m>> \o SortedSeq(S \ {m})

IsSilent(a, i, th) == a[i].level <= th

\* Maximal runs of audio at or below th, as absolute [s, e) spans in time order.
SilentSpans(a, th) ==
    LET first == {i \in 1..Len(a) : IsSilent(a, i, th) /\ (i = 1 \/ ~IsSilent(a, i - 1, th))}
        lastOf(i) == CHOOSE j \in i..Len(a) :
                        /\ \A k \in i..j : IsSilent(a, k, th)
                        /\ (j = Len(a) \/ ~IsSilent(a, j + 1, th))
        order == SortedSeq(first)
    IN  [n \in 1..Len(order) |->
            [s |-> RunStartAt(a, order[n]), e |-> RunStartAt(a, lastOf(order[n]) + 1)]]

\* detect_silence(audio[ws:we], min_silence_len, silence_thresh): the silent
\* ranges of the slice lasting at least min_silence_len, relative to the
\* start of the slice, in time order.
DetectSilence(a, ws, we, min_silence_len, th) ==
    LET spans == SilentSpans(a, th)
        sliced == [n \in 1..Len(spans) |->
                      [s |-> Max2(spans[n].s, ws) - ws, e |-> Min2(spans[n].e, we) - ws]]
        Qualifies(r) == r.e - r.s >= min_silence_len
    IN  SelectSeq(sliced, Qualifies)

----------------------------------------------------------------------------
(* SilenceAwareSegmenter / FallbackOverlapSegmenter *)

WindowStart(c, start) == start + c.min_chunk_ms
WindowEnd(c, start) == start + c.max_chunk_ms

SilencesAt(c, a, start, k) ==
    DetectSilence(a, WindowStart(c, start), WindowEnd(c, start),
                  c.min_silence_ms, c.silence_thresholds_dbfs[k])

\* Variant: the most permissive threshold that yields an interval is used.
FirstThreshold_MostPermissive(c, a, start) ==
    LET ks == {k \in 1..Len(c.silence_thresholds_dbfs) : SilencesAt(c, a, start, k) # <<>>}
    IN  IF ks = {} THEN 0 ELSE CHOOSE k \in ks : \A j \in ks : k >= j

\* Variant: a single fixed threshold, the strictest one.
FirstThreshold_SingleFixed(c, a, start) ==
    IF SilencesAt(c, a, start, 1) # <<>> THEN 1 ELSE 0

\* Index of the first threshold, in configured order, that yields a
\* qualifying interval in the window; 0 when none does.
FirstThreshold(c, a, start) ==
    LET ks == {k \in 1..Len(c.silence_thresholds_dbfs) : SilencesAt(c, a, start, k) # <<>>}
    IN  IF ks = {} THEN 0 ELSE CHOOSE k \in ks : \A j \in ks : k <= j

\* The interval the cut is placed in.
ChosenSilence(silences) == silences[1]

\* Variant: the middle of the silence is counted from the start of the chunk.
SilenceMiddle_FromChunkStart(c, start, r) == start + (r.s + r.e) \div 2

\* Cut in the middle of the silence.
SilenceMiddle(c, start, r) == WindowStart(c, start) + (r.s + r.e) \div 2

CutPoint(c, a, start) ==
    SilenceMiddle(c, start, ChosenSilence(SilencesAt(c, a, start, FirstThreshold(c, a, start))))

\* Variant: the overlap is taken off the end of the chunk as well.
HardCutEnd_OverlapTwice(c, start) == start + c.max_chunk_ms - c.overlap_ms

\* Variant: the cut is placed at the start of the search window.
HardCutEnd_AtWindowStart(c, start) == start + c.min_chunk_ms

HardCutEnd(c, start) == start + c.max_chunk_ms

\* Variant: no safety overlap, the next chunk starts where the cut was made.
NextStartAfterHardCut_NoOverlap(c, end_time) == end_time

\* Variant: only half of the overlap is backtracked.
NextStartAfterHardCut_HalfOverlap(c, end_time) == end_time - c.overlap_ms \div 2

\* Variant: the overlap is skipped instead of repeated.
NextStartAfterHardCut_SkipsOverlap(c, end_time) == end_time + c.overlap_ms

\* Backtrack the next chunk by the safety overlap.
NextStartAfterHardCut(c, end_time) == end_time - c.overlap_ms

\* Variant: a remainder of exactly MAX_MS is not taken as the final chunk.
IsFinalChunk_Strict(c, total, start) == total - start < c.max_chunk_ms

IsFinalChunk(c, total, start) == total - start <= c.max_chunk_ms

\* Variant: the final chunk is cut MAX_MS long like the others.
FinalEnd_FullChunk(c, total, start) == start + c.max_chunk_ms

\* end_time = total_len
FinalEnd(c, total, start) == total

\* SegmentationError condition.
DegenerateDuration(total) == total <= 0

Boundary(i, s, e, strategy, ov) ==
    [index |-> i, start_ms |-> s, end_ms |-> e, cut_strategy |-> strategy, overlap_ms |-> ov]

LogEntry(i, thresh, cut) == [chunk |-> i, thresh |-> thresh, cut |-> cut]

----------------------------------------------------------------------------
(* The orchestrator before any chunk has been handed over *)

NoTranscript == [segments |-> <<>>, total_duration_ms |-> 0, chunk_count |-> 0,
                 failed_chunk_indices |-> {}]

\* No page of the frontend is open.
ProcessingIdle ==
    /\ pm_jobId = ""
    /\ pm_pollInterval = FALSE
    /\ pm_reqs = <<>>
    /\ pm_job = "queued"
    /\ pm_cancel = "none"
    /\ pm_ui = "none"
    /\ pm_calls = [updateUI |-> 0, onComplete |-> 0, onFailed |-> 0, onCancelled |-> 0,
                   showError |-> 0, cancelJob |-> 0]
    /\ pm_timers = <<>>
    /\ pm_location = [page |-> "", param |-> "", value |-> ""]
    /\ pm_page = "unloaded"

UploadIdle ==
    /\ up_selected = <<>>
    /\ up_sent = <<>>
    /\ up_errors = <<>>
    /\ up_events = 0

\* new RecordingManager(): the fields the constructor sets; the page is not open.
RecordingIdle ==
    /\ rec_mediaStream = 0
    /\ rec_streams = 0
    /\ rec_requests = <<>>
    /\ rec_recorders = <<>>
    /\ rec_isRecording = FALSE
    /\ rec_isPaused = FALSE
    /\ rec_startTime = 0
    /\ rec_elapsedTime = 0
    /\ rec_timerInterval = 0
    /\ rec_intervals = {}
    /\ rec_timerIds = 0
    /\ rec_now = 0
    /\ rec_calls = [onRecordingComplete |-> 0]
    /\ rec_redirects = 0
    /\ rec_location = [page |-> "", param |-> "", value |-> ""]
    /\ rec_page = "unloaded"

\* new SettingsManager(): the literal of the constructor.
DefaultSettings ==
    [language |-> "en-US", darkMode |-> FALSE, emailNotifications |-> TRUE,
     pushNotifications |-> FALSE]

SettingsIdle ==
    /\ set_settings = DefaultSettings
    /\ set_hasChanges = FALSE
    /\ set_stored = <<>>
    /\ set_events = 0
    /\ set_click = ""

\* new PermissionsManager(): the fields the constructor sets.
PermissionsIdle ==
    /\ perm_collaborators = <<>>
    /\ perm_items = <<>>
    /\ perm_toast = ""
    /\ perm_click = [kind |-> "", text |-> <<>>]
    /\ perm_now = 0
    /\ perm_events = 0

FrontendIdle ==
    ProcessingIdle /\ UploadIdle /\ RecordingIdle /\ SettingsIdle /\ PermissionsIdle

OrchIdle ==
    /\ opc = "idle"
    /\ batch_start = 0
    /\ in_flight = {}
    /\ outcome = <<>>
    /\ calls = <<>>
    /\ batches = <<>>
    /\ api_segments = <<>>
    /\ results = <<>>
    /\ cancelled = FALSE
    /\ artifacts = {}
    /\ merged = NoTranscript
    /\ errors = <<>>
    /\ progress_updates = 0

----------------------------------------------------------------------------
(* Pipeline entry point *)

\* Variant: both limits have to be exceeded.
ExceedsLimits_Both(c, size, duration) ==
    size > c.max_size_bytes /\ duration > c.max_duration_ms

ExceedsLimits(c, size, duration) ==
    size > c.max_size_bytes \/ duration > c.max_duration_ms

\* Variant: the limits alone decide, the ENABLE_CHUNKING setting is ignored.
UseChunking_IgnoreSetting(c, size, duration) == ExceedsLimits(c, size, duration)

UseChunking(c, size, duration) ==
    c.chunking_enabled /\ ExceedsLimits(c, size, duration)

SegInit ==
    /\ cfg \in Configs
    /\ audio \in IF cfg.max_chunk_ms = MAX_MS
                 THEN DefaultAudios \cup {ContinuousNoise32}
                 ELSE ScaledAudios
    /\ size_bytes \in {cfg.max_size_bytes, cfg.max_size_bytes + 1}
    /\ pc = "entry"
    /\ cursor = 0
    /\ boundaries = <<>>
    /\ log = <<>>
    /\ OrchIdle
    /\ FrontendIdle

\* Small file (or chunking disabled): single transcription of the whole source.
RouteDirect ==
    /\ pc = "entry"
    /\ ~UseChunking(cfg, size_bytes, total_len)
    /\ boundaries' = <<Boundary(0, 0, total_len, "final", 0)>>
    /\ pc' = "direct"
    /\ UNCHANGED <<cfg, audio, size_bytes, cursor, log>>
    /\ UNCHANGED orchVars
    /\ UNCHANGED feVars

\* Single transcription: the whole source goes to the API in one call.
TranscribeDirect ==
    /\ pc = "direct"
    /\ opc = "idle"
    /\ opc' = "direct_call"
    /\ calls' = [i \in 0..(Len(boundaries) - 1) |-> 1]
    /\ UNCHANGED <<batch_start, in_flight, outcome, batches, api_segments, results,
                   cancelled, artifacts, merged, errors, progress_updates>>
    /\ UNCHANGED segVars
    /\ UNCHANGED feVars

\* Large file: split into chunks.  A source without duration cannot be segmented.
RouteChunked ==
    /\ pc = "entry"
    /\ UseChunking(cfg, size_bytes, total_len)
    /\ pc' = IF DegenerateDuration(total_len) THEN "SegmentationError" ELSE "segmenting"
    /\ cursor' = 0
    /\ UNCHANGED <<cfg, audio, size_bytes, boundaries, log>>
    /\ UNCHANGED orchVars
    /\ UNCHANGED feVars

\* Remaining audio fits into one chunk: export it as it is and stop.
EmitFinal ==
    /\ pc = "segmenting"
    /\ IsFinalChunk(cfg, total_len, cursor)
    /\ LET end_time == FinalEnd(cfg, total_len, cursor)
       IN  /\ boundaries' = Append(boundaries, Boundary(Len(boundaries), cursor, end_time, "final", 0))
           /\ log' = Append(log, LogEntry(Len(boundaries), 0, end_time))
    /\ pc' = "segmented"
    /\ UNCHANGED <<cfg, audio, size_bytes, cursor>>
    /\ UNCHANGED orchVars
    /\ UNCHANGED feVars

\* Silence found at some threshold: cut in its middle, next chunk starts there.
CutAtSilence ==
    /\ pc = "segmenting"
    /\ ~IsFinalChunk(cfg, total_len, cursor)
    /\ FirstThreshold(cfg, audio, cursor) # 0
    /\ LET cut == CutPoint(cfg, audio, cursor)
           th == cfg.silence_thresholds_dbfs[FirstThreshold(cfg, audio, cursor)]
       IN  /\ boundaries' = Append(boundaries, Boundary(Len(boundaries), cursor, cut, "silence", 0))
           /\ log' = Append(log, LogEntry(Len(boundaries), th, cut))
           /\ cursor' = cut
    /\ UNCHANGED <<cfg, audio, size_bytes, pc>>
    /\ UNCHANGED orchVars
    /\ UNCHANGED feVars

\* No silence even at the most permissive threshold: hard cut with overlap.
HardCut ==
    /\ pc = "segmenting"
    /\ ~IsFinalChunk(cfg, total_len, cursor)
    /\ FirstThreshold(cfg, audio, cursor) = 0
    /\ LET end_time == HardCutEnd(cfg, cursor)
       IN  /\ boundaries' = Append(boundaries,
                   Boundary(Len(boundaries), cursor, end_time, "hard", cfg.overlap_ms))
           /\ log' = Append(log, LogEntry(Len(boundaries), 0, end_time))
           /\ cursor' = NextStartAfterHardCut(cfg, end_time)
    /\ UNCHANGED <<cfg, audio, size_bytes, pc>>
    /\ UNCHANGED orchVars
    /\ UNCHANGED feVars

SegNext ==
    \/ RouteDirect
    \/ TranscribeDirect
    \/ RouteChunked
    \/ EmitFinal
    \/ CutAtSilence
    \/ HardCut

Spec == SegInit /\ [][SegNext]_vars

----------------------------------------------------------------------------
(* The whole boundary list of a source, as the segmentation loop builds it *)

RECURSIVE SegmentFrom(_, _, _, _)
SegmentFrom(c, a, start, acc) ==
    LET total == SumLen(a, Len(a))
    IN  IF IsFinalChunk(c, total, start)
        THEN Append(acc, Boundary(Len(acc), start, FinalEnd(c, total, start), "final", 0))
        ELSE IF FirstThreshold(c, a, start) # 0
             THEN SegmentFrom(c, a, CutPoint(c, a, start),
                      Append(acc, Boundary(Len(acc), start, CutPoint(c, a, start), "silence", 0)))
             ELSE SegmentFrom(c, a, NextStartAfterHardCut(c, HardCutEnd(c, start)),
                      Append(acc, Boundary(Len(acc), start, HardCutEnd(c, start), "hard",
                                           c.overlap_ms)))

SegmentAll(c, a) == SegmentFrom(c, a, 0, <<>>)

----------------------------------------------------------------------------
(* TranscriptSegment, ChunkResult *)

Segment(s, e, text) == [start_time |-> s, end_time |-> e, text |-> text]

ChunkResult(i, status, segs) == [chunk_index |-> i, status |-> status, segments |-> segs]

----------------------------------------------------------------------------
(* TranscriptMerger *)

RECURSIVE Flatten(_)
Flatten(ss) == IF ss = <<>> THEN <<>> ELSE Head(ss) \o Flatten(Tail(ss))

RemoveAt(q, k) == [n \in 1..(Len(q) - 1) |-> IF n < k THEN q[n] ELSE q[n + 1]]

\* Variant: the results are sorted by chunk index in descending order.
RECURSIVE SortByIndex_Descending(_)
SortByIndex_Descending(rs) ==
    IF rs = <<>> THEN <<>>
    ELSE LET m == CHOOSE k \in 1..Len(rs) :
                      \A j \in 1..Len(rs) : rs[k].chunk_index >= rs[j].chunk_index
         IN  <<rs[m]>> \o SortByIndex_Descending(RemoveAt(rs, m))

\* Results sorted by chunk index.
RECURSIVE SortByIndex(_)
SortByIndex(rs) ==
    IF rs = <<>> THEN <<>>
    ELSE LET m == CHOOSE k \in 1..Len(rs) :
                      \A j \in 1..Len(rs) : rs[k].chunk_index <= rs[j].chunk_index
         IN  <<rs[m]>> \o SortByIndex(RemoveAt(rs, m))

\* Variant: every chunk is taken to start where the chunk before it
\* nominally ended, the overlap not accounted for.
ChunkOffset_NominalEnd(bs, i) == IF i = 0 THEN 0 ELSE bs[i].end_ms

\* The offset of chunk i in the global timeline.
ChunkOffset(bs, i) == bs[i + 1].start_ms

ShiftToGlobal(seg, offset) ==
    Segment(seg.start_time + offset, seg.end_time + offset, seg.text)

SucceededIn(rs, i) ==
    \E k \in 1..Len(rs) : rs[k].chunk_index = i /\ rs[k].status = "ok"

\* Variant: the overlap region is discarded even when the chunk before
\* the hard cut failed.
ResolvesOverlap_Always(rs, bs, i) ==
    i > 0 /\ bs[i].cut_strategy = "hard"

\* Variant: the repeated text of the overlap is left in the transcript.
ResolvesOverlap_Never(rs, bs, i) == FALSE

\* Chunk i was started before the nominal end of chunk i - 1 and chunk
\* i - 1 delivered the overlap region itself.
ResolvesOverlap(rs, bs, i) ==
    i > 0 /\ bs[i].cut_strategy = "hard" /\ SucceededIn(rs, i - 1)

\* Variant: segments starting exactly at the nominal end are discarded too.
InOverlapRegion_Inclusive(seg, nominal_end) == seg.start_time <= nominal_end

InOverlapRegion(seg, nominal_end) == seg.start_time < nominal_end

\* The segments chunk result r contributes, in global time.
Contribution(rs, bs, r) ==
    IF r.status # "ok" THEN <<>>
    ELSE LET i == r.chunk_index
             shifted == [n \in 1..Len(r.segments) |->
                            ShiftToGlobal(r.segments[n], ChunkOffset(bs, i))]
             Keep(seg) == ~InOverlapRegion(seg, bs[i].end_ms)
         IN  IF ResolvesOverlap(rs, bs, i) THEN SelectSeq(shifted, Keep) ELSE shifted

\* Variant: the positions in the result list are reported, not the chunk indices.
FailedIndices_Positions(rs) ==
    {k \in 1..Len(rs) : rs[k].status = "failed"}

FailedIndices(rs) ==
    {rs[k].chunk_index : k \in {n \in 1..Len(rs) : rs[n].status = "failed"}}

MergeTranscript(rs, bs) ==
    [ segments |-> Flatten([k \in 1..Len(rs) |-> Contribution(rs, bs, rs[k])]),
      total_duration_ms |-> bs[Len(bs)].end_ms,
      chunk_count |-> Len(bs),
      failed_chunk_indices |-> FailedIndices(rs) ]

----------------------------------------------------------------------------
(* BatchTranscriptionOrchestrator *)

NumChunks == Len(boundaries)
ChunkIndices == 0..(NumChunks - 1)

\* Variant: no batching, every remaining chunk is started at once.
BatchEnd_Unbounded(start, size, n) == n

\* chunks[batch_start:batch_end]
BatchEnd(start, size, n) == Min2(start + size, n)

BatchChunks(start, size, n) ==
    [k \in 1..(BatchEnd(start, size, n) - start) |-> start + k - 1]

\* Variant: consecutive batches share their border chunk.
NextBatchStart_OffByOne(start, size) == start + size - 1

\* range(0, len(chunks), BATCH_SIZE)
NextBatchStart(start, size) == start + size

\* Variant: the wait ends as soon as at most one call is still running.
BatchSettled_AllButOne(pending) == Cardinality(pending) <= 1

\* gather returns when no call of the batch is pending.
BatchSettled(pending) == pending = {}

\* Variant: cancellation is not looked at.
MaySubmit_IgnoreCancel(is_cancelled) == TRUE

\* A batch is submitted only while the caller has not cancelled.
MaySubmit(is_cancelled) == ~is_cancelled

\* Variant: the chunk files are left behind.
DeleteArtifact_Never(files, i) == files

\* Variant: the files of the whole batch are removed by the first call that ends.
DeleteArtifact_WholeBatch(files, i) == files \ in_flight

\* The file of chunk i is removed by the call that consumed it.
DeleteArtifact(files, i) == files \ {i}

\* Variant: one failed chunk fails the job.
TotalFailure_Any(rs) == \E k \in 1..Len(rs) : rs[k].status = "failed"

\* Total-failure rule: every chunk of the job failed.
TotalFailure(rs) == \A k \in 1..Len(rs) : rs[k].status = "failed"

\* Variant: exceptions among the batch results are skipped.
BatchResults_SkipExceptions(batch, out, segs) ==
    LET all == [k \in 1..Len(batch) |->
                   ChunkResult(batch[k], out[batch[k]],
                               IF out[batch[k]] = "ok" THEN segs[batch[k]] ELSE <<>>)]
        IsOk(r) == r.status = "ok"
    IN  SelectSeq(all, IsOk)

\* batch_results: one entry per task of the batch, in the order the tasks
\* were passed to gather; an exception stands for a failed chunk.
BatchResults(batch, out, segs) ==
    [k \in 1..Len(batch) |->
        ChunkResult(batch[k], out[batch[k]],
                    IF out[batch[k]] = "ok" THEN segs[batch[k]] ELSE <<>>)]

\* The boundary list of a recording without any silence, n chunks long.
ContinuousNoiseBoundaries(c, n) ==
    LET step == c.max_chunk_ms - c.overlap_ms
    IN  [i \in 1..n |->
            IF i < n
            THEN Boundary(i - 1, (i - 1) * step, (i - 1) * step + c.max_chunk_ms,
                          "hard", c.overlap_ms)
            ELSE Boundary(i - 1, (i - 1) * step, (i - 1) * step + c.max_chunk_ms,
                          "final", 0)]

Duration(b) == b.end_ms - b.start_ms

OrchStart ==
    /\ pc = "transcribing"
    /\ opc = "dispatch"
    /\ batch_start = 0
    /\ in_flight = {}
    /\ batches = <<>>
    /\ outcome = [i \in ChunkIndices |-> "none"]
    /\ calls = [i \in ChunkIndices |-> 0]
    /\ results = <<>>
    /\ cancelled = FALSE
    /\ artifacts = ChunkIndices
    /\ merged = NoTranscript
    /\ errors = [i \in ChunkIndices |-> "none"]
    /\ progress_updates = 0

\* The orchestrator takes over the exported chunks of a segmented source.
OrchInit ==
    /\ cfg \in {DefaultCfg, ScaledCfg}
    /\ \E n \in 1..MaxChunks :
          /\ boundaries = ContinuousNoiseBoundaries(cfg, n)
          /\ audio = <<Run(boundaries[n].end_ms, -10)>>
          /\ log = [i \in 1..n |-> LogEntry(i - 1, 0, boundaries[i].end_ms)]
          /\ cursor = boundaries[n].start_ms
          /\ api_segments = [i \in 0..(n - 1) |->
                                <<Segment(0, Duration(boundaries[i + 1]), <<i, 1>>)>>]
    /\ size_bytes = cfg.max_size_bytes + 1
    /\ OrchStart
    /\ FrontendIdle

\* Create one task per chunk of the next batch and start them together.
LaunchBatch ==
    /\ opc = "dispatch"
    /\ batch_start < NumChunks
    /\ MaySubmit(cancelled)
    /\ LET batch == BatchChunks(batch_start, cfg.batch_size, NumChunks)
           members == {batch[k] : k \in 1..Len(batch)}
       IN  /\ in_flight' = in_flight \cup members
           /\ calls' = [i \in DOMAIN calls |-> IF i \in members THEN calls[i] + 1 ELSE calls[i]]
           /\ batches' = Append(batches, batch)
    /\ opc' = "gather"
    /\ UNCHANGED <<batch_start, outcome, api_segments, results, cancelled, artifacts, merged,
                   errors, progress_updates>>
    /\ UNCHANGED segVars
    /\ UNCHANGED feVars

\* A transcription call of the batch returns its segments; its outcome is
\* recorded and its chunk file removed.
CallSucceeds(i) ==
    /\ opc = "gather"
    /\ i \in in_flight
    /\ outcome' = [outcome EXCEPT ![i] = "ok"]
    /\ artifacts' = DeleteArtifact(artifacts, i)
    /\ in_flight' = in_flight \ {i}
    /\ UNCHANGED <<opc, batch_start, calls, batches, api_segments, results, cancelled, merged,
                   errors, progress_updates>>
    /\ UNCHANGED segVars
    /\ UNCHANGED feVars

\* The per-chunk errors, captured and downgraded to a failed ChunkResult.
ChunkErrors == {"ChunkExportError", "TranscriptionRequestError"}

\* Variant: gather without return_exceptions lets the exception through.
OnTaskException_Raise(pos, e) == e

\* gather with return_exceptions=True keeps the exception of a task as that
\* task's result: the orchestrator stays where it is.
OnTaskException(pos, e) == pos

\* The task of a chunk raises, on the export of the chunk or on the
\* transcription request; gather keeps the exception as that task's result
\* and the sibling calls go on.
CallFails(i) ==
    /\ opc = "gather"
    /\ i \in in_flight
    /\ outcome' = [outcome EXCEPT ![i] = "failed"]
    /\ \E e \in ChunkErrors :
          /\ errors' = [errors EXCEPT ![i] = e]
          /\ opc' = OnTaskException(opc, e)
    /\ artifacts' = DeleteArtifact(artifacts, i)
    /\ in_flight' = in_flight \ {i}
    /\ UNCHANGED <<batch_start, calls, batches, api_segments, results, cancelled, merged,
                   progress_updates>>
    /\ UNCHANGED segVars
    /\ UNCHANGED feVars

\* Variant: the progress sink is updated once per chunk of the batch.
ProgressAfterBatch_PerChunk(n, batch) == n + Len(batch)

\* The job progress is updated once for the completed batch.
ProgressAfterBatch(n, batch) == n + 1

\* asyncio.gather returns once every call of the batch has settled; the
\* outcomes of the batch are recorded as ChunkResults and the job progress
\* is updated.
GatherReturns ==
    /\ opc = "gather"
    /\ BatchSettled(in_flight)
    /\ results' = results \o BatchResults(batches[Len(batches)], outcome, api_segments)
    /\ batch_start' = NextBatchStart(batch_start, cfg.batch_size)
    /\ progress_updates' = ProgressAfterBatch(progress_updates, batches[Len(batches)])
    /\ opc' = "dispatch"
    /\ UNCHANGED <<in_flight, outcome, calls, batches, api_segments, cancelled,
                   artifacts, merged, errors>>
    /\ UNCHANGED segVars
    /\ UNCHANGED feVars

AllFailed == \A i \in ChunkIndices : outcome[i] = "failed"

\* Variant: the merger accepts fewer results than boundaries.
CountsAgree_AtMost(rs, bs) == Len(rs) <= Len(bs)

\* The merger's check of its inputs: one ChunkResult per boundary.
CountsAgree(rs, bs) == Len(rs) = Len(bs)

\* No batch is left: the results are sorted by chunk index and merged, or
\* the total failure is reported.
AllBatchesDone ==
    /\ opc = "dispatch"
    /\ batch_start >= NumChunks
    /\ LET ordered == SortByIndex(results)
       IN  /\ results' = ordered
           /\ IF TotalFailure(ordered)
              THEN opc' = "TranscriptionFailedError" /\ merged' = merged
              ELSE IF ~CountsAgree(ordered, boundaries)
              THEN opc' = "MergeInconsistencyError" /\ merged' = merged
              ELSE opc' = "done" /\ merged' = MergeTranscript(ordered, boundaries)
    /\ UNCHANGED <<batch_start, in_flight, outcome, calls, batches, api_segments, cancelled,
                   artifacts, errors, progress_updates>>
    /\ UNCHANGED segVars
    /\ UNCHANGED feVars

\* The caller cancels the job while it is being transcribed.
Cancel ==
    /\ opc \in {"dispatch", "gather"}
    /\ ~cancelled
    /\ cancelled' = TRUE
    /\ UNCHANGED <<opc, batch_start, in_flight, outcome, calls, batches, api_segments,
                   results, artifacts, merged, errors, progress_updates>>
    /\ UNCHANGED segVars
    /\ UNCHANGED feVars

\* Batches are left but the caller has cancelled: none of them is submitted.
StopOnCancel ==
    /\ opc = "dispatch"
    /\ batch_start < NumChunks
    /\ ~MaySubmit(cancelled)
    /\ opc' = "cancelled"
    /\ UNCHANGED <<batch_start, in_flight, outcome, calls, batches, api_segments, results,
                   cancelled, artifacts, merged, errors, progress_updates>>
    /\ UNCHANGED segVars
    /\ UNCHANGED feVars

OrchNext ==
    \/ LaunchBatch
    \/ \E i \in ChunkIndices : CallSucceeds(i)
    \/ \E i \in ChunkIndices : CallFails(i)
    \/ GatherReturns
    \/ AllBatchesDone
    \/ Cancel
    \/ StopOnCancel

OrchSpec == OrchInit /\ [][OrchNext]_vars

----------------------------------------------------------------------------
(* Orchestration and merge of sources with silence cuts and hard cuts *)

\* The cut strategies of the chunks before the final one.
CutPlans == SeqsUpTo({"silence", "hard"}, MaxMergeChunks - 1)

\* A source, in unit runs under the scaled configuration, that the segmenter
\* cuts as the plan says: five units of new audio per planned chunk, a
\* two unit silence across each planned silence cut, four units at the end.
PlanAudio(plan) ==
    [t \in 1..(5 * Len(plan) + 4) |->
        LET k == ((t - 1) \div 5) + 1
            pos == ((t - 1) % 5) + 1
            quiet == \/ (pos = 5 /\ k <= Len(plan) /\ plan[k] = "silence")
                     \/ (pos = 1 /\ k > 1 /\ plan[k - 1] = "silence")
        IN  Run(1, IF quiet THEN -60 ELSE -10)]

\* Answers of the transcription API for a chunk of duration d, as
\* chunk-local <<start, end>> pairs in time order within the chunk: no
\* speech, speech from the first unit, speech from the second unit, and
\* speech in the last two units of the chunk.
SegmentChoices(d) ==
    { <<>>,
      << <<0, 1>>, <<2, 4>> >>,
      << <<1, 3>>, <<3, 4>> >>,
      << <<d - 2, d - 1>>, <<d - 1, d>> >> }

ApiAnswer(i, spans) ==
    [n \in 1..Len(spans) |-> Segment(spans[n][1], spans[n][2], <<i, n>>)]

MergeInit ==
    /\ cfg = ScaledCfg
    /\ audio \in {PlanAudio(plan) : plan \in CutPlans}
    /\ boundaries = SegmentAll(cfg, audio)
    /\ log = [i \in 1..Len(boundaries) |->
                LogEntry(i - 1,
                         IF boundaries[i].cut_strategy = "silence"
                         THEN cfg.silence_thresholds_dbfs[FirstThreshold(cfg, audio,
                                                             boundaries[i].start_ms)]
                         ELSE 0,
                         boundaries[i].end_ms)]
    /\ cursor = boundaries[Len(boundaries)].start_ms
    /\ \E choice \in [ChunkIndices ->
                          UNION {SegmentChoices(d) : d \in 0..cfg.max_chunk_ms}] :
          /\ \A i \in ChunkIndices :
                choice[i] \in SegmentChoices(Duration(boundaries[i + 1]))
          /\ api_segments = [i \in ChunkIndices |-> ApiAnswer(i, choice[i])]
    /\ size_bytes = cfg.max_size_bytes + 1
    /\ OrchStart
    /\ FrontendIdle

MergeSpec == MergeInit /\ [][OrchNext]_vars

----------------------------------------------------------------------------
(* The merger on its own: merge(ordered ChunkResults, boundaries) *)

\* Ordered ChunkResults for the chunk indices 0..n-1, each successful with
\* speech in its first units or failed.
ResultLists(n) ==
    { [k \in 1..n |->
          ChunkResult(k - 1, st[k],
                      IF st[k] = "ok"
                      THEN ApiAnswer(k - 1, << <<0, 1>>, <<2, 4>> >>)
                      ELSE <<>>)] : st \in [1..n -> {"ok", "failed"}] }

\* The merger is handed the boundaries of a segmented source and a list of
\* results that has fewer, as many or more entries than there are
\* boundaries.
MergerInit ==
    /\ cfg = ScaledCfg
    /\ audio \in {PlanAudio(plan) : plan \in CutPlans}
    /\ boundaries = SegmentAll(cfg, audio)
    /\ log = <<>>
    /\ cursor = boundaries[Len(boundaries)].start_ms
    /\ size_bytes = cfg.max_size_bytes + 1
    /\ pc = "transcribing"
    /\ opc = "merge"
    /\ results \in UNION {ResultLists(n) : n \in 0..(NumChunks + 1)}
    /\ batch_start = NumChunks
    /\ in_flight = {}
    /\ batches = <<>>
    /\ outcome = [i \in ChunkIndices |-> "none"]
    /\ calls = [i \in ChunkIndices |-> 0]
    /\ errors = [i \in ChunkIndices |-> "none"]
    /\ api_segments = [i \in ChunkIndices |-> <<>>]
    /\ cancelled = FALSE
    /\ artifacts = {}
    /\ merged = NoTranscript
    /\ progress_updates = 0
    /\ FrontendIdle

\* merge(results, boundaries): the counts are checked first.
MergeCall ==
    /\ opc = "merge"
    /\ IF ~CountsAgree(results, boundaries)
       THEN opc' = "MergeInconsistencyError" /\ merged' = merged
       ELSE opc' = "done" /\ merged' = MergeTranscript(results, boundaries)
    /\ UNCHANGED <<batch_start, in_flight, outcome, calls, batches, api_segments, results,
                   cancelled, artifacts, errors, progress_updates>>
    /\ UNCHANGED segVars
    /\ UNCHANGED feVars

MergerSpec == MergerInit /\ [][MergeCall]_vars

----------------------------------------------------------------------------
(* Frontend: the backend is not part of these specifications *)

BackendIdle ==
    /\ cfg = DefaultCfg
    /\ audio = <<>>
    /\ size_bytes = 0
    /\ pc = "entry"
    /\ cursor = 0
    /\ boundaries = <<>>
    /\ log = <<>>
    /\ OrchIdle

backendVars == <<segVars, orchVars>>

Url(page, param, value) == [page |-> page, param |-> param, value |-> value]
NoLocation == Url("", "", "")

----------------------------------------------------------------------------
(* ProcessingManager: processing page polling the job status *)

Statuses == {"queued", "processing", "completed", "failed", "cancelled"}
TerminalStatuses == {"completed", "failed", "cancelled"}

Bump(counters, f) == [counters EXCEPT ![f] = @ + 1]

NoCalls ==
    [updateUI |-> 0, onComplete |-> 0, onFailed |-> 0, onCancelled |-> 0, showError |-> 0,
     cancelJob |-> 0]

\* new ProcessingManager(): init() reads job_id from the URL; without it an
\* error is shown and a redirect to the upload page is scheduled, with it
\* startPolling() polls at once and sets the interval.
PollInit ==
    /\ BackendIdle
    /\ pm_page = "live"
    /\ pm_jobId \in {"", "job-1"}
    /\ pm_job = "queued"
    /\ pm_cancel = "none"
    /\ pm_ui = "none"
    /\ pm_location = NoLocation
    /\ UploadIdle
    /\ RecordingIdle
    /\ SettingsIdle
    /\ PermissionsIdle
    /\ IF pm_jobId = ""
       THEN /\ pm_pollInterval = FALSE
            /\ pm_reqs = <<>>
            /\ pm_calls = Bump(NoCalls, "showError")
            /\ pm_timers = <<Url("upload.html", "", "")>>
       ELSE /\ pm_pollInterval = TRUE
            /\ pm_reqs = <<"pending">>
            /\ pm_calls = NoCalls
            /\ pm_timers = <<>>

\* The interval fires: pollStatus() issues a status request, whether or not
\* earlier requests have returned.
PollTick ==
    /\ pm_page = "live"
    /\ pm_pollInterval
    /\ Len(pm_reqs) < MaxPolls
    /\ pm_reqs' = Append(pm_reqs, "pending")
    /\ UNCHANGED <<pm_jobId, pm_pollInterval, pm_job, pm_cancel, pm_ui, pm_calls, pm_timers,
                   pm_location, pm_page>>
    /\ UNCHANGED backendVars
    /\ UNCHANGED <<upVars, recVars, setVars, permVars>>

\* The backend answers request r with the status the job has now, or the
\* request fails (network error, 60 s timeout, non-OK response).
ServerAnswers(r) ==
    /\ pm_reqs[r] = "pending"
    /\ \E resp \in {pm_job, "error"} : pm_reqs' = [pm_reqs EXCEPT ![r] = resp]
    /\ UNCHANGED <<pm_jobId, pm_pollInterval, pm_job, pm_cancel, pm_ui, pm_calls, pm_timers,
                   pm_location, pm_page>>
    /\ UNCHANGED backendVars
    /\ UNCHANGED <<upVars, recVars, setVars, permVars>>

\* Variant: polling stops on completion only.
StopsPolling_OnlyCompleted(st) == st = "completed"

\* pollStatus: the statuses on which stopPolling() is called.
StopsPolling(st) == st \in {"completed", "failed", "cancelled"}

\* onComplete: the redirect to the results page.
ResultsUrl(jobId) == Url("results.html", "job", jobId)

\* pollStatus resumes after await getJobStatus() with a status.
ReceiveStatus(r) ==
    /\ pm_page = "live"
    /\ pm_reqs[r] \in Statuses
    /\ LET st == pm_reqs[r]
       IN  /\ pm_reqs' = [pm_reqs EXCEPT ![r] = "handled"]
           /\ pm_ui' = st
           /\ pm_pollInterval' = IF StopsPolling(st) THEN FALSE ELSE pm_pollInterval
           /\ pm_calls' =
                 LET shown == Bump(pm_calls, "updateUI")
                 IN  IF st = "completed" THEN Bump(shown, "onComplete")
                     ELSE IF st = "failed" THEN Bump(Bump(shown, "onFailed"), "showError")
                     ELSE IF st = "cancelled" THEN Bump(shown, "onCancelled")
                     ELSE shown
           /\ pm_timers' = IF st = "completed"
                           THEN Append(pm_timers, ResultsUrl(pm_jobId))
                           ELSE pm_timers
           /\ pm_location' = IF st = "cancelled"
                             THEN Url("upload.html", "", "")
                             ELSE pm_location
    /\ UNCHANGED <<pm_jobId, pm_job, pm_cancel, pm_page>>
    /\ UNCHANGED backendVars
    /\ UNCHANGED <<upVars, recVars, setVars, permVars>>

\* Variant: an error of the status request stops the polling.
PollAfterError_Stop(interval) == FALSE

\* pollStatus, catch branch: the error is logged and polling goes on.
PollAfterError(interval) == interval

\* pollStatus resumes after await getJobStatus() with an exception.
ReceiveError(r) ==
    /\ pm_page = "live"
    /\ pm_reqs[r] = "error"
    /\ pm_reqs' = [pm_reqs EXCEPT ![r] = "logged"]
    /\ pm_pollInterval' = PollAfterError(pm_pollInterval)
    /\ UNCHANGED <<pm_jobId, pm_job, pm_cancel, pm_ui, pm_calls, pm_timers, pm_location,
                   pm_page>>
    /\ UNCHANGED backendVars
    /\ UNCHANGED <<upVars, recVars, setVars, permVars>>

\* The backend moves the job on.
JobAdvances ==
    /\ \/ pm_job = "queued" /\ pm_job' = "processing"
       \/ pm_job = "processing" /\ pm_job' \in {"completed", "failed"}
    /\ UNCHANGED <<pm_jobId, pm_pollInterval, pm_reqs, pm_cancel, pm_ui, pm_calls, pm_timers,
                   pm_location, pm_page>>
    /\ UNCHANGED backendVars
    /\ UNCHANGED <<upVars, recVars, setVars, permVars>>

\* The user clicks Cancel and confirms: cancelJob() sends the request.
ClickCancel ==
    /\ pm_page = "live"
    /\ pm_jobId # ""
    /\ pm_cancel \in {"none", "failed"}
    /\ pm_calls.cancelJob < MaxCancels
    /\ pm_cancel' = "pending"
    /\ pm_calls' = Bump(pm_calls, "cancelJob")
    /\ UNCHANGED <<pm_jobId, pm_pollInterval, pm_reqs, pm_job, pm_ui, pm_timers,
                   pm_location, pm_page>>
    /\ UNCHANGED backendVars
    /\ UNCHANGED <<upVars, recVars, setVars, permVars>>

\* The backend cancels the job, or the cancel request fails.
CancelAnswered ==
    /\ pm_cancel = "pending"
    /\ \/ /\ pm_cancel' = "ok"
          /\ pm_job' = IF pm_job \in TerminalStatuses THEN pm_job ELSE "cancelled"
       \/ /\ pm_cancel' = "error"
          /\ pm_job' = pm_job
    /\ UNCHANGED <<pm_jobId, pm_pollInterval, pm_reqs, pm_ui, pm_calls, pm_timers,
                   pm_location, pm_page>>
    /\ UNCHANGED backendVars
    /\ UNCHANGED <<upVars, recVars, setVars, permVars>>

\* cancelJob resumes after await apiClient.cancelJob(): stopPolling() and
\* onCancelled() on success, an error message otherwise.
CancelReturns ==
    /\ pm_page = "live"
    /\ \/ /\ pm_cancel = "ok"
          /\ pm_cancel' = "succeeded"
          /\ pm_pollInterval' = FALSE
          /\ pm_calls' = Bump(pm_calls, "onCancelled")
          /\ pm_location' = Url("upload.html", "", "")
       \/ /\ pm_cancel = "error"
          /\ pm_cancel' = "failed"
          /\ pm_calls' = Bump(pm_calls, "showError")
          /\ UNCHANGED <<pm_pollInterval, pm_location>>
    /\ UNCHANGED <<pm_jobId, pm_reqs, pm_job, pm_ui, pm_timers, pm_page>>
    /\ UNCHANGED backendVars
    /\ UNCHANGED <<upVars, recVars, setVars, permVars>>

\* A scheduled redirect fires: window.location.href is set.
TimerFires ==
    /\ pm_page = "live"
    /\ pm_timers # <<>>
    /\ pm_location' = Head(pm_timers)
    /\ pm_timers' = Tail(pm_timers)
    /\ UNCHANGED <<pm_jobId, pm_pollInterval, pm_reqs, pm_job, pm_cancel, pm_ui, pm_calls,
                   pm_page>>
    /\ UNCHANGED backendVars
    /\ UNCHANGED <<upVars, recVars, setVars, permVars>>

\* The navigation started by setting window.location.href commits: the
\* processing page is unloaded and none of its scripts runs any more.
\* Until then its callbacks still run.
Unload ==
    /\ pm_page = "live"
    /\ pm_location # NoLocation
    /\ pm_page' = "unloaded"
    /\ UNCHANGED <<pm_jobId, pm_pollInterval, pm_reqs, pm_job, pm_cancel, pm_ui, pm_calls,
                   pm_timers, pm_location>>
    /\ UNCHANGED backendVars
    /\ UNCHANGED <<upVars, recVars, setVars, permVars>>

PollNext ==
    \/ PollTick
    \/ \E r \in 1..Len(pm_reqs) : ServerAnswers(r)
    \/ \E r \in 1..Len(pm_reqs) : ReceiveStatus(r)
    \/ \E r \in 1..Len(pm_reqs) : ReceiveError(r)
    \/ JobAdvances
    \/ ClickCancel
    \/ CancelAnswered
    \/ CancelReturns
    \/ TimerFires
    \/ Unload

PollSpec == PollInit /\ [][PollNext]_vars

----------------------------------------------------------------------------
(* UploadManager: file selection on the upload page *)

\* File names are sequences of characters; a run of letters is one token
\* and "." is the separator.
Dot == "."

FileNames ==
    { <<"talk", Dot, "mp3">>, <<"talk", Dot, "MP3">>, <<"talk", Dot, "exe">>,
      <<"talk", Dot, "mp3", Dot, "exe">>, <<"talk", Dot, "exe", Dot, "Wav">>,
      <<"talk">>, <<"mp3">>, <<"talk", Dot>> }

\* String.prototype.toLowerCase on the letter runs used in FileNames.
ToLowerCase(token) ==
    CASE token = "MP3" -> "mp3"
      [] token = "Wav" -> "wav"
      [] OTHER -> token

\* String.prototype.split('.'): the pieces between the separators; a name
\* without separator is its own single piece.
RECURSIVE SplitDots(_, _, _)
SplitDots(name, piece, acc) ==
    IF name = <<>> THEN Append(acc, piece)
    ELSE IF Head(name) = Dot THEN SplitDots(Tail(name), <<>>, Append(acc, piece))
    ELSE SplitDots(Tail(name), Append(piece, Head(name)), acc)

\* Array.prototype.pop
Pop(parts) == parts[Len(parts)]

allowedFormats == <<"mp3", "wav", "mp4", "mov", "m4a", "ogg", "webm">>
maxFileSize == 500 * 1024 * 1024

\* file.name.split('.').pop().toLowerCase()
ExtensionOf(name) ==
    LET last == Pop(SplitDots(name, <<>>, <<>>))
    IN  [k \in 1..Len(last) |-> ToLowerCase(last[k])]

Includes(list, piece) == \E k \in 1..Len(list) : <<list[k]>> = piece

\* Variant: the size limit is exclusive.
SizeOK_Exclusive(size) == ~(size >= maxFileSize)

\* validateFile: the size check.
SizeOK(size) == ~(size > maxFileSize)

\* validateFile: "ok", or the error it shows.
ValidateFile(file) ==
    IF ~Includes(allowedFormats, ExtensionOf(file.name)) THEN "format"
    ELSE IF ~SizeOK(file.size) THEN "size"
    ELSE "ok"

FileSizes == {maxFileSize, maxFileSize + 1}
UploadFiles == [name : FileNames, size : FileSizes]

UploadInit ==
    /\ BackendIdle
    /\ ProcessingIdle
    /\ UploadIdle
    /\ RecordingIdle
    /\ SettingsIdle
    /\ PermissionsIdle

\* handleFiles(files): nothing for an empty list; otherwise the first file
\* is validated and, when valid, uploaded.
HandleFiles(files) ==
    /\ up_events < MaxSelections
    /\ up_events' = up_events + 1
    /\ up_selected' = files
    /\ IF Len(files) = 0
       THEN UNCHANGED <<up_sent, up_errors>>
       ELSE LET file == files[1]
                verdict == ValidateFile(file)
            IN  IF verdict # "ok"
                THEN up_errors' = Append(up_errors, verdict) /\ up_sent' = up_sent
                ELSE up_sent' = Append(up_sent, file) /\ up_errors' = up_errors
    /\ UNCHANGED backendVars
    /\ UNCHANGED <<pmVars, recVars, setVars, permVars>>

UploadNext == \E files \in SeqsUpTo(UploadFiles, MaxFiles) : HandleFiles(files)

UploadSpec == UploadInit /\ [][UploadNext]_vars

----------------------------------------------------------------------------
(* RecordingManager: the recording page *)

MaxRequests == 2
MaxRecorders == 2
MaxTimers == 2
MaxClock == 2

RecInit ==
    /\ BackendIdle
    /\ ProcessingIdle
    /\ UploadIdle
    /\ rec_mediaStream = 0
    /\ rec_streams = 0
    /\ rec_requests = <<>>
    /\ rec_recorders = <<>>
    /\ rec_isRecording = FALSE
    /\ rec_isPaused = FALSE
    /\ rec_startTime = 0
    /\ rec_elapsedTime = 0
    /\ rec_timerInterval = 0
    /\ rec_intervals = {}
    /\ rec_timerIds = 0
    /\ rec_now = 0
    /\ rec_calls = [onRecordingComplete |-> 0]
    /\ rec_redirects = 0
    /\ rec_location = NoLocation
    /\ rec_page = "live"
    /\ SettingsIdle
    /\ PermissionsIdle

\* this.mediaRecorder: the recorder created last, 0 for null.
mediaRecorder == Len(rec_recorders)

\* A MediaRecorder is active while its state is "recording" or "paused";
\* after stop() it is inactive with its stop event still to be fired.
ActiveStates == {"recording", "paused"}

\* mediaRecorder.stop(): nothing for an inactive recorder.
Stopped(recorders, i) ==
    IF i # 0 /\ recorders[i].state \in ActiveStates
    THEN [recorders EXCEPT ![i].state = "stopping"]
    ELSE recorders

\* track.stop() on every track of a stream: the recorders of that stream stop.
TracksEnded(recorders, stream) ==
    [i \in 1..Len(recorders) |->
        IF recorders[i].stream = stream /\ recorders[i].state \in ActiveStates
        THEN [recorders[i] EXCEPT !.state = "stopping"]
        ELSE recorders[i]]

\* startTimer(): startTime is set back by the elapsed time and a new
\* interval is stored in timerInterval, whatever timerInterval held.
StartTimer ==
    /\ rec_startTime' = rec_now - rec_elapsedTime
    /\ rec_timerIds' = rec_timerIds + 1
    /\ rec_timerInterval' = rec_timerIds + 1
    /\ rec_intervals' = rec_intervals \cup {rec_timerIds + 1}

\* stopTimer(): the interval held by timerInterval is cleared, if any.
StopTimer ==
    /\ rec_intervals' = IF rec_timerInterval # 0
                        THEN rec_intervals \ {rec_timerInterval}
                        ELSE rec_intervals
    /\ rec_timerInterval' = 0
    /\ UNCHANGED <<rec_startTime, rec_timerIds>>

\* startRecording, the try block, on the stream held by mediaStream: a new
\* MediaRecorder is started, or its construction throws and only an alert
\* is shown.
BeginRecording(stream) ==
    /\ Len(rec_recorders) < MaxRecorders
    /\ rec_timerIds < MaxTimers
    /\ \/ /\ rec_recorders' = Append(rec_recorders, [stream |-> stream, state |-> "recording"])
          /\ rec_isRecording' = TRUE
          /\ StartTimer
       \/ UNCHANGED <<rec_recorders, rec_isRecording, rec_startTime, rec_timerIds,
                      rec_timerInterval, rec_intervals>>

\* Record button while not recording: startRecording(). Without a stream it
\* awaits requestMediaPermissions(); with one it starts at once.
StartRecording ==
    /\ rec_page = "live"
    /\ ~rec_isRecording
    /\ IF rec_mediaStream = 0
       THEN /\ rec_streams + Len(rec_requests) < MaxRequests
            /\ rec_requests' = Append(rec_requests, [by |-> "startRecording", state |-> "pending"])
            /\ UNCHANGED <<rec_recorders, rec_isRecording, rec_startTime, rec_timerIds,
                           rec_timerInterval, rec_intervals>>
       ELSE /\ BeginRecording(rec_mediaStream)
            /\ UNCHANGED rec_requests
    /\ UNCHANGED <<rec_mediaStream, rec_streams, rec_isPaused, rec_elapsedTime, rec_now,
                   rec_calls, rec_redirects, rec_location, rec_page>>
    /\ UNCHANGED <<backendVars, pmVars, upVars, setVars, permVars>>

\* The permissions button: requestMediaPermissions() on its own.
RequestPermissionsClick ==
    /\ rec_page = "live"
    /\ rec_streams + Len(rec_requests) < MaxRequests
    /\ rec_requests' = Append(rec_requests, [by |-> "button", state |-> "pending"])
    /\ UNCHANGED <<rec_mediaStream, rec_streams, rec_recorders, rec_isRecording, rec_isPaused,
                   rec_startTime, rec_elapsedTime, rec_timerInterval, rec_intervals,
                   rec_timerIds, rec_now, rec_calls, rec_redirects, rec_location, rec_page>>
    /\ UNCHANGED <<backendVars, pmVars, upVars, setVars, permVars>>

\* getUserMedia / getDisplayMedia settles: the user grants or denies.
PermissionAnswered(k) ==
    /\ rec_requests[k].state = "pending"
    /\ \E answer \in {"granted", "denied"} :
          rec_requests' = [rec_requests EXCEPT ![k].state = answer]
    /\ UNCHANGED <<rec_mediaStream, rec_streams, rec_recorders, rec_isRecording, rec_isPaused,
                   rec_startTime, rec_elapsedTime, rec_timerInterval, rec_intervals,
                   rec_timerIds, rec_now, rec_calls, rec_redirects, rec_location, rec_page>>
    /\ UNCHANGED <<backendVars, pmVars, upVars, setVars, permVars>>

\* requestMediaPermissions resumes: the stream is stored, or the error is
\* shown. A startRecording() that awaited it then returns if there is still
\* no stream and otherwise goes on to its try block.
RequestMediaPermissionsReturns(k) ==
    /\ rec_page = "live"
    /\ rec_requests[k].state \in {"granted", "denied"}
    /\ rec_requests' = RemoveAt(rec_requests, k)
    /\ LET granted == rec_requests[k].state = "granted"
           stream == IF granted THEN rec_streams + 1 ELSE rec_mediaStream
       IN  /\ rec_mediaStream' = stream
           /\ rec_streams' = IF granted THEN rec_streams + 1 ELSE rec_streams
           /\ IF rec_requests[k].by = "startRecording" /\ stream # 0
              THEN BeginRecording(stream)
              ELSE UNCHANGED <<rec_recorders, rec_isRecording, rec_startTime,
                               rec_timerIds, rec_timerInterval, rec_intervals>>
    /\ UNCHANGED <<rec_isPaused, rec_elapsedTime, rec_now, rec_calls, rec_redirects,
                   rec_location, rec_page>>
    /\ UNCHANGED <<backendVars, pmVars, upVars, setVars, permVars>>

\* Record button while recording: stopRecording().
StopRecording ==
    /\ rec_page = "live"
    /\ rec_isRecording
    /\ mediaRecorder # 0
    /\ rec_recorders' = Stopped(rec_recorders, mediaRecorder)
    /\ rec_isRecording' = FALSE
    /\ StopTimer
    /\ UNCHANGED <<rec_mediaStream, rec_streams, rec_requests, rec_isPaused, rec_elapsedTime,
                   rec_now, rec_calls, rec_redirects, rec_location, rec_page>>
    /\ UNCHANGED <<backendVars, pmVars, upVars, setVars, permVars>>

\* Pause button while isPaused is false: pauseRecording(). pause() throws on
\* an inactive recorder, which leaves the handler before any assignment.
PauseRecording ==
    /\ rec_page = "live"
    /\ ~rec_isPaused
    /\ mediaRecorder # 0 /\ rec_isRecording
    /\ rec_recorders[mediaRecorder].state \in ActiveStates
    /\ rec_recorders' = [rec_recorders EXCEPT ![mediaRecorder].state = "paused"]
    /\ rec_isPaused' = TRUE
    /\ StopTimer
    /\ UNCHANGED <<rec_mediaStream, rec_streams, rec_requests, rec_isRecording,
                   rec_elapsedTime, rec_now, rec_calls, rec_redirects, rec_location, rec_page>>
    /\ UNCHANGED <<backendVars, pmVars, upVars, setVars, permVars>>

\* Pause button while isPaused is true: resumeRecording().
ResumeRecording ==
    /\ rec_page = "live"
    /\ rec_isPaused
    /\ mediaRecorder # 0 /\ rec_isRecording
    /\ rec_recorders[mediaRecorder].state \in ActiveStates
    /\ rec_timerIds < MaxTimers
    /\ rec_recorders' = [rec_recorders EXCEPT ![mediaRecorder].state = "recording"]
    /\ rec_isPaused' = FALSE
    /\ StartTimer
    /\ UNCHANGED <<rec_mediaStream, rec_streams, rec_requests, rec_isRecording,
                   rec_elapsedTime, rec_now, rec_calls, rec_redirects, rec_location, rec_page>>
    /\ UNCHANGED <<backendVars, pmVars, upVars, setVars, permVars>>

\* Cancel button, confirmed: cancelRecording().
CancelRecording ==
    /\ rec_page = "live"
    /\ rec_recorders' =
          LET stopped == IF rec_isRecording THEN Stopped(rec_recorders, mediaRecorder)
                         ELSE rec_recorders
          IN  IF rec_mediaStream # 0 THEN TracksEnded(stopped, rec_mediaStream) ELSE stopped
    /\ rec_isRecording' = FALSE
    /\ rec_isPaused' = FALSE
    /\ StopTimer
    /\ rec_elapsedTime' = 0
    /\ rec_mediaStream' = 0
    /\ rec_location' = Url("upload.html", "", "")
    /\ UNCHANGED <<rec_streams, rec_requests, rec_now, rec_calls, rec_redirects, rec_page>>
    /\ UNCHANGED <<backendVars, pmVars, upVars, setVars, permVars>>

\* The recording type is changed while a stream is held: stopMediaStream().
TypeChanged ==
    /\ rec_page = "live"
    /\ rec_mediaStream # 0
    /\ rec_recorders' = TracksEnded(rec_recorders, rec_mediaStream)
    /\ rec_mediaStream' = 0
    /\ UNCHANGED <<rec_streams, rec_requests, rec_isRecording, rec_isPaused, rec_startTime,
                   rec_elapsedTime, rec_timerInterval, rec_intervals, rec_timerIds, rec_now,
                   rec_calls, rec_redirects, rec_location, rec_page>>
    /\ UNCHANGED <<backendVars, pmVars, upVars, setVars, permVars>>

\* The stop event of recorder i: onstop runs onRecordingComplete(), which
\* hands the file to uploadRecording(); the redirect is scheduled.
OnStop(i) ==
    /\ rec_page = "live"
    /\ rec_recorders[i].state = "stopping"
    /\ rec_recorders' = [rec_recorders EXCEPT ![i].state = "inactive"]
    /\ rec_calls' = Bump(rec_calls, "onRecordingComplete")
    /\ rec_redirects' = rec_redirects + 1
    /\ UNCHANGED <<rec_mediaStream, rec_streams, rec_requests, rec_isRecording, rec_isPaused,
                   rec_startTime, rec_elapsedTime, rec_timerInterval, rec_intervals,
                   rec_timerIds, rec_now, rec_location, rec_page>>
    /\ UNCHANGED <<backendVars, pmVars, upVars, setVars, permVars>>

\* Time passes: Date.now() grows by one timer period.
ClockTick ==
    /\ rec_page = "live"
    /\ rec_now < MaxClock
    /\ rec_now' = rec_now + 1
    /\ UNCHANGED <<rec_mediaStream, rec_streams, rec_requests, rec_recorders, rec_isRecording,
                   rec_isPaused, rec_startTime, rec_elapsedTime, rec_timerInterval,
                   rec_intervals, rec_timerIds, rec_calls, rec_redirects, rec_location,
                   rec_page>>
    /\ UNCHANGED <<backendVars, pmVars, upVars, setVars, permVars>>

\* The callback of an interval that was set and not cleared runs.
TimerIntervalFires(id) ==
    /\ rec_page = "live"
    /\ id \in rec_intervals
    /\ rec_elapsedTime' = rec_now - rec_startTime
    /\ UNCHANGED <<rec_mediaStream, rec_streams, rec_requests, rec_recorders, rec_isRecording,
                   rec_isPaused, rec_startTime, rec_timerInterval, rec_intervals, rec_timerIds,
                   rec_now, rec_calls, rec_redirects, rec_location, rec_page>>
    /\ UNCHANGED <<backendVars, pmVars, upVars, setVars, permVars>>

\* The redirect scheduled by uploadRecording() fires.
RecordingRedirectFires ==
    /\ rec_page = "live"
    /\ rec_redirects > 0
    /\ rec_redirects' = rec_redirects - 1
    /\ rec_location' = Url("processing.html", "", "")
    /\ UNCHANGED <<rec_mediaStream, rec_streams, rec_requests, rec_recorders, rec_isRecording,
                   rec_isPaused, rec_startTime, rec_elapsedTime, rec_timerInterval,
                   rec_intervals, rec_timerIds, rec_now, rec_calls, rec_page>>
    /\ UNCHANGED <<backendVars, pmVars, upVars, setVars, permVars>>

\* The navigation started by setting window.location.href commits.
RecordingUnload ==
    /\ rec_page = "live"
    /\ rec_location # NoLocation
    /\ rec_page' = "unloaded"
    /\ UNCHANGED <<rec_mediaStream, rec_streams, rec_requests, rec_recorders, rec_isRecording,
                   rec_isPaused, rec_startTime, rec_elapsedTime, rec_timerInterval,
                   rec_intervals, rec_timerIds, rec_now, rec_calls, rec_redirects,
                   rec_location>>
    /\ UNCHANGED <<backendVars, pmVars, upVars, setVars, permVars>>

RecNext ==
    \/ StartRecording
    \/ RequestPermissionsClick
    \/ \E k \in 1..Len(rec_requests) : PermissionAnswered(k)
    \/ \E k \in 1..Len(rec_requests) : RequestMediaPermissionsReturns(k)
    \/ StopRecording
    \/ PauseRecording
    \/ ResumeRecording
    \/ CancelRecording
    \/ TypeChanged
    \/ \E i \in 1..Len(rec_recorders) : OnStop(i)
    \/ ClockTick
    \/ \E id \in rec_intervals : TimerIntervalFires(id)
    \/ RecordingRedirectFires
    \/ RecordingUnload

RecSpec == RecInit /\ [][RecNext]_vars

----------------------------------------------------------------------------
(* SettingsManager: the settings page *)

MaxSettingsEvents == 3

Languages == {"en-US", "fr-FR"}

SettingsValues ==
    [language : Languages, darkMode : BOOLEAN, emailNotifications : BOOLEAN,
     pushNotifications : BOOLEAN]

\* loadSettings(): the saved record is spread over the settings held; without
\* a saved item the settings are left as they are.
LoadSettings(settings, stored) ==
    IF stored # <<>>
    THEN [k \in DOMAIN settings |->
             IF k \in DOMAIN stored[1] THEN stored[1][k] ELSE settings[k]]
    ELSE settings

\* The page is opened: constructor and init(), with whatever an earlier
\* saveSettings() left in localStorage.
SettingsInit ==
    /\ BackendIdle
    /\ ProcessingIdle
    /\ UploadIdle
    /\ RecordingIdle
    /\ PermissionsIdle
    /\ set_stored \in {<<>>} \cup {<<saved>> : saved \in SettingsValues}
    /\ set_settings = LoadSettings(DefaultSettings, set_stored)
    /\ set_hasChanges = FALSE
    /\ set_events = 0
    /\ set_click = ""

\* What every handler of the settings page leaves alone.
SettingsEvent(click) ==
    /\ set_events < MaxSettingsEvents
    /\ set_events' = set_events + 1
    /\ set_click' = click
    /\ UNCHANGED <<backendVars, pmVars, upVars, recVars, permVars>>

\* change on the language select.
LanguageChanged(language) ==
    /\ SettingsEvent("language")
    /\ set_settings' = [set_settings EXCEPT !.language = language]
    /\ set_hasChanges' = TRUE
    /\ UNCHANGED set_stored

\* click on the dark mode toggle: darkMode follows the class of the
\* document, which the theme manager owns; hasChanges is not touched.
DarkModeToggled(isDark) ==
    /\ SettingsEvent("darkMode")
    /\ set_settings' = [set_settings EXCEPT !.darkMode = isDark]
    /\ UNCHANGED <<set_hasChanges, set_stored>>

\* click on the e-mail notifications toggle.
EmailToggled ==
    /\ SettingsEvent("emailNotifications")
    /\ set_settings' = [set_settings EXCEPT !.emailNotifications = ~@]
    /\ set_hasChanges' = TRUE
    /\ UNCHANGED set_stored

\* click on the push notifications toggle.
PushToggled ==
    /\ SettingsEvent("pushNotifications")
    /\ set_settings' = [set_settings EXCEPT !.pushNotifications = ~@]
    /\ set_hasChanges' = TRUE
    /\ UNCHANGED set_stored

\* click on Save (enabled only while hasChanges): saveSettings() stores the
\* settings, or setItem throws and only an error toast is shown.
SaveSettings ==
    /\ set_hasChanges
    /\ \/ /\ SettingsEvent("save")
          /\ set_stored' = <<set_settings>>
          /\ set_hasChanges' = FALSE
          /\ UNCHANGED set_settings
       \/ /\ SettingsEvent("save failed")
          /\ UNCHANGED <<set_settings, set_hasChanges, set_stored>>

\* click on Cancel: cancelChanges(), the user confirming or declining.
CancelChanges(confirmed) ==
    IF set_hasChanges /\ confirmed
    THEN /\ SettingsEvent("cancel confirmed")
         /\ set_settings' = LoadSettings(set_settings, set_stored)
         /\ set_hasChanges' = FALSE
         /\ UNCHANGED set_stored
    ELSE /\ SettingsEvent(IF set_hasChanges THEN "cancel declined" ELSE "cancel")
         /\ UNCHANGED <<set_settings, set_hasChanges, set_stored>>

SettingsNext ==
    \/ \E language \in Languages : LanguageChanged(language)
    \/ \E isDark \in BOOLEAN : DarkModeToggled(isDark)
    \/ EmailToggled
    \/ PushToggled
    \/ SaveSettings
    \/ \E confirmed \in BOOLEAN : CancelChanges(confirmed)

SettingsSpec == SettingsInit /\ [][SettingsNext]_vars

----------------------------------------------------------------------------
(* PermissionsManager: the sharing dialog *)

MaxPermEvents == 3
MaxPermClock == 4

\* E-mail texts are sequences of characters; a run of characters other
\* than white space, "@" and "." is one token.
Space == " "
At == "@"

BenCarter == <<"ben", Dot, "carter", At, "example", Dot, "com">>
OliviaR == <<"olivia", Dot, "r", At, "example", Dot, "com">>

\* What may stand in the invite input when the button is clicked.
InviteInputs ==
    { BenCarter,
      <<Space>> \o OliviaR \o <<Space>>,
      <<"Ben", Dot, "carter", At, "example", Dot, "com">>,
      <<"new", At, "example", Dot, "com">>,
      <<Space, "new", At, "example", Dot, "com">>,
      <<>>,
      <<Space, Space>>,
      <<"new", At, "example">>,
      <<"new", Space, "x", At, "example", Dot, "com">>,
      <<"new", At, At, "example", Dot, "com">>,
      <<At, "example", Dot, "com">>,
      <<"new", At, "example", Dot>> }

Roles == {"editor", "viewer"}

\* String.prototype.trim(): white space is taken off both ends.
RECURSIVE TrimStart(_)
TrimStart(text) ==
    IF text # <<>> /\ Head(text) = Space THEN TrimStart(Tail(text)) ELSE text

RECURSIVE TrimEnd(_)
TrimEnd(text) ==
    IF text # <<>> /\ text[Len(text)] = Space
    THEN TrimEnd(SubSeq(text, 1, Len(text) - 1))
    ELSE text

Trim(text) == TrimEnd(TrimStart(text))

\* Variant: the part after "@" need not contain a ".".
IsValidEmail_NoDot(email) ==
    /\ \A k \in 1..Len(email) : email[k] # Space
    /\ \E a \in 2..(Len(email) - 1) :
          /\ email[a] = At
          /\ \A k \in 1..Len(email) : email[k] = At => k = a

\* isValidEmail: /^[^\s@]+@[^\s@]+\.[^\s@]+$/ -- no white space, one "@"
\* with text before it, and after it a "." with text on both sides.
IsValidEmail(email) ==
    /\ \A k \in 1..Len(email) : email[k] # Space
    /\ \E a \in 2..Len(email) :
          /\ email[a] = At
          /\ \A k \in 1..Len(email) : email[k] = At => k = a
          /\ \E p \in (a + 2)..(Len(email) - 1) : email[p] = Dot

\* Variant: only the first collaborator is compared.
Existing_FirstOnly(collaborators, email) ==
    collaborators # <<>> /\ collaborators[1].email = email

\* inviteUser: this.collaborators.find(c => c.email === email) finds one.
Existing(collaborators, email) ==
    \E k \in 1..Len(collaborators) : collaborators[k].email = email

\* loadCollaborators(): the two collaborators of the dialog; Date.now() is
\* past their ids.
PermissionsInit ==
    /\ BackendIdle
    /\ ProcessingIdle
    /\ UploadIdle
    /\ RecordingIdle
    /\ SettingsIdle
    /\ perm_collaborators = << [id |-> 1, email |-> BenCarter, role |-> "editor"],
                               [id |-> 2, email |-> OliviaR, role |-> "viewer"] >>
    /\ perm_items = <<1, 2>>
    /\ perm_toast = ""
    /\ perm_click = [kind |-> "", text |-> <<>>]
    /\ perm_now = 3
    /\ perm_events = 0

\* What every handler of the dialog leaves alone.
PermissionsEvent ==
    /\ perm_events < MaxPermEvents
    /\ perm_events' = perm_events + 1
    /\ UNCHANGED perm_now
    /\ UNCHANGED <<backendVars, pmVars, upVars, recVars, setVars>>

\* click on Invite (or Enter in the input) with text in the input and role
\* in the role select: the trimmed text is checked and handed to inviteUser.
Invite(text, role) ==
    /\ PermissionsEvent
    /\ perm_click' = [kind |-> "invite", text |-> text]
    /\ LET email == Trim(text)
       IN  IF email = <<>>
           THEN /\ perm_toast' = "Please enter an email address"
                /\ UNCHANGED <<perm_collaborators, perm_items>>
           ELSE IF ~IsValidEmail(email)
           THEN /\ perm_toast' = "Please enter a valid email address"
                /\ UNCHANGED <<perm_collaborators, perm_items>>
           ELSE IF Existing(perm_collaborators, email)
           THEN /\ perm_toast' = "User already has access"
                /\ UNCHANGED <<perm_collaborators, perm_items>>
           ELSE /\ perm_collaborators' =
                      Append(perm_collaborators,
                             [id |-> perm_now, email |-> email, role |-> role])
                /\ perm_items' = Append(perm_items, perm_now)
                /\ perm_toast' = "Invited"

\* The first collaborator with the id, 0 if there is none.
FindById(collaborators, userId) ==
    IF \E k \in 1..Len(collaborators) : collaborators[k].id = userId
    THEN CHOOSE k \in 1..Len(collaborators) :
            /\ collaborators[k].id = userId
            /\ \A j \in 1..(k - 1) : collaborators[j].id # userId
    ELSE 0

\* change of the role select of item n to a role: updateCollaboratorRole.
UpdateCollaboratorRole(n, newRole) ==
    /\ PermissionsEvent
    /\ n \in 1..Len(perm_items)
    /\ LET k == FindById(perm_collaborators, perm_items[n])
       IN  IF k # 0
           THEN /\ perm_collaborators' = [perm_collaborators EXCEPT ![k].role = newRole]
                /\ perm_toast' = "Changed role"
           ELSE UNCHANGED <<perm_collaborators, perm_toast>>
    /\ perm_click' = [kind |-> "role", text |-> <<>>]
    /\ UNCHANGED perm_items

\* "Remove access" chosen on item n: removeCollaborator, the user
\* confirming or declining.
RemoveCollaborator(n, confirmed) ==
    /\ PermissionsEvent
    /\ n \in 1..Len(perm_items)
    /\ IF confirmed
       THEN /\ perm_collaborators' =
                  LET Kept(c) == c.id # perm_items[n]
                  IN  SelectSeq(perm_collaborators, Kept)
            /\ perm_items' = RemoveAt(perm_items, n)
            /\ perm_toast' = "Removed"
       ELSE UNCHANGED <<perm_collaborators, perm_items, perm_toast>>
    /\ perm_click' = [kind |-> "remove", text |-> <<>>]

\* Time passes between two events of the dialog.
PermissionsTick ==
    /\ perm_now < MaxPermClock
    /\ perm_now' = perm_now + 1
    /\ UNCHANGED <<perm_collaborators, perm_items, perm_toast, perm_click, perm_events>>
    /\ UNCHANGED <<backendVars, pmVars, upVars, recVars, setVars>>

PermissionsNext ==
    \/ \E text \in InviteInputs, role \in Roles : Invite(text, role)
    \/ \E n \in 1..Len(perm_items), newRole \in Roles : UpdateCollaboratorRole(n, newRole)
    \/ \E n \in 1..Len(perm_items), confirmed \in BOOLEAN : RemoveCollaborator(n, confirmed)
    \/ PermissionsTick

PermissionsSpec == PermissionsInit /\ [][PermissionsNext]_vars

TypeOK ==
    /\ pc \in {"entry", "direct", "segmenting", "segmented", "SegmentationError", "transcribing"}
    /\ opc \in {"idle", "direct_call", "dispatch", "gather", "merge", "done",
               "TranscriptionFailedError",
               "MergeInconsistencyError", "cancelled"}
    /\ progress_updates \in Nat
    /\ in_flight \subseteq ChunkIndices
    /\ cursor \in Nat
    /\ \A i \in 1..Len(boundaries) : boundaries[i].index = i - 1

----------------------------------------------------------------------------
(* Properties of the segmenter *)

Segmenting == pc \in {"segmenting", "segmented"}

Thresholds == cfg.silence_thresholds_dbfs

\* Some configured threshold yields a qualifying interval in the window
\* of the chunk starting at start.
QualifyingSilenceExists(start) ==
    \E k \in 1..Len(Thresholds) : SilencesAt(cfg, audio, start, k) # <<>>

\* The chunk starting at start was cut by a segmentation step with a search
\* window (more than MAX_MS of audio remained).
HadSearchWindow(start) == total_len - start > cfg.max_chunk_ms

HasStrategy(strategy) ==
    \E i \in 1..Len(boundaries) : boundaries[i].cut_strategy = strategy

\* C1: in every boundary list of the segmenter start_ms is strictly
\* increasing, every boundary ends after it starts, the boundary after a
\* hard cut starts overlap_ms before that cut and the boundary after a
\* silence cut starts at that cut.
C1_BoundaryOrdering ==
    Segmenting =>
        \A i \in 1..Len(boundaries) :
            /\ boundaries[i].end_ms > boundaries[i].start_ms
            /\ i < Len(boundaries) =>
                 /\ boundaries[i + 1].start_ms > boundaries[i].start_ms
                 /\ boundaries[i].cut_strategy = "hard" =>
                        boundaries[i + 1].start_ms = boundaries[i].end_ms - cfg.overlap_ms
                 /\ boundaries[i].cut_strategy = "silence" =>
                        boundaries[i + 1].start_ms = boundaries[i].end_ms

C1_Witness ==
    /\ pc = "segmented"
    /\ Len(boundaries) >= 3
    /\ HasStrategy("hard")
    /\ HasStrategy("silence")

\* Distances of a word's start and end from a cut, up to the extremes
\* that still fit into the overlap.
WordOffsets == {1, 2, cfg.overlap_ms \div 2, cfg.overlap_ms - 2, cfg.overlap_ms - 1}

\* Words [a, b] of the recording spoken across the cut at E and no longer
\* than the overlap.
WordsAcross(E) ==
    {w \in {[a |-> E - d1, b |-> E + d2] : d1 \in WordOffsets, d2 \in WordOffsets} :
        /\ w.a < E /\ E < w.b
        /\ w.b - w.a <= cfg.overlap_ms
        /\ 0 <= w.a /\ w.b <= total_len}

Contains(b, w) == b.start_ms <= w.a /\ w.b <= b.end_ms

\* C2: a word spoken across a hard cut and no longer than the overlap lies
\* entirely inside the chunk before the cut or entirely inside the chunk
\* after it.
C2_WordAcrossHardCut ==
    pc = "segmented" =>
        \A i \in 1..Len(boundaries) :
            boundaries[i].cut_strategy = "hard" =>
                \A w \in WordsAcross(boundaries[i].end_ms) :
                    Contains(boundaries[i], w) \/ Contains(boundaries[i + 1], w)

C2_Witness ==
    /\ pc = "segmented"
    /\ \E i \in 1..Len(boundaries) :
          /\ boundaries[i].cut_strategy = "hard"
          /\ \E w \in WordsAcross(boundaries[i].end_ms) :
                /\ w.b - w.a = cfg.overlap_ms
                /\ Contains(boundaries[i + 1], w)

\* C3: a segmentation step whose search window holds a qualifying silence
\* at one of the configured thresholds emits a silence boundary, never a
\* hard one.
C3_SilencePreferred ==
    Segmenting =>
        \A i \in 1..Len(boundaries) :
            (HadSearchWindow(boundaries[i].start_ms)
                /\ QualifyingSilenceExists(boundaries[i].start_ms))
            => boundaries[i].cut_strategy = "silence"

C3_Witness ==
    /\ Segmenting
    /\ \E i \in 1..Len(boundaries) :
          /\ boundaries[i].cut_strategy = "silence"
          /\ SilencesAt(cfg, audio, boundaries[i].start_ms, 1) = <<>>
          /\ QualifyingSilenceExists(boundaries[i].start_ms)

\* C4: a step in which no threshold yields a qualifying interval emits
\* [cursor, cursor + MAX_MS) as a hard boundary and moves the cursor to
\* cursor + MAX_MS - OVERLAP_MS, the overlap taken off once; a silence cut
\* carries no overlap.
C4_HardCutOverlapOnce ==
    [][ (pc = "segmenting" /\ HadSearchWindow(cursor)) =>
            LET b == boundaries'[Len(boundaries')]
            IN  /\ Len(boundaries') = Len(boundaries) + 1
                /\ IF QualifyingSilenceExists(cursor)
                   THEN /\ b.cut_strategy = "silence"
                        /\ b.overlap_ms = 0
                        /\ cursor' = b.end_ms
                   ELSE /\ b.start_ms = cursor
                        /\ b.end_ms = cursor + cfg.max_chunk_ms
                        /\ b.cut_strategy = "hard"
                        /\ cursor' = cursor + cfg.max_chunk_ms - cfg.overlap_ms ]_vars

C4_Witness ==
    /\ pc = "segmented"
    /\ \E i \in 1..Len(boundaries) :
          /\ boundaries[i].cut_strategy = "hard"
          /\ ~QualifyingSilenceExists(boundaries[i].start_ms)
          /\ boundaries[i + 1].start_ms = boundaries[i].end_ms - cfg.overlap_ms
          /\ boundaries[i + 1].cut_strategy = "hard"

\* C5: segmenting a source of positive duration not above max_chunk_ms
\* gives exactly the boundary [0, total_duration_ms), final, without a
\* silence search or a hard cut.
C5_ShortSourceSingleFinal ==
    (total_len > 0 /\ total_len <= cfg.max_chunk_ms) =>
        /\ pc = "segmenting" => (boundaries = <<>> /\ log = <<>>)
        /\ pc = "segmented" =>
              /\ Len(boundaries) = 1
              /\ boundaries[1].start_ms = 0
              /\ boundaries[1].end_ms = total_len
              /\ boundaries[1].cut_strategy = "final"
              /\ Len(log) = 1 /\ log[1].thresh = 0

C5_Witness ==
    /\ pc = "segmented"
    /\ total_len = cfg.max_chunk_ms
    /\ Len(boundaries) = 1

Span(b) == <<b.start_ms, b.end_ms, b.cut_strategy>>

\* C6: 1920000 ms without silence, min 600000, max 900000, overlap 5000
\* segment into [0, 900000) hard, [895000, 1795000) hard and
\* [1790000, 1920000) final.
C6_ContinuousNoiseScenario ==
    ( /\ pc = "segmented"
      /\ total_len = 1920000
      /\ cfg.min_chunk_ms = 600000 /\ cfg.max_chunk_ms = 900000 /\ cfg.overlap_ms = 5000
      /\ \A n \in 1..Len(boundaries) : ~QualifyingSilenceExists(boundaries[n].start_ms) )
    => [n \in 1..Len(boundaries) |-> Span(boundaries[n])]
         = << <<0, 900000, "hard">>, <<895000, 1795000, "hard">>, <<1790000, 1920000, "final">> >>

C6_Witness ==
    /\ pc = "segmented"
    /\ audio = ContinuousNoise32
    /\ cfg.min_chunk_ms = 600000 /\ cfg.max_chunk_ms = 900000 /\ cfg.overlap_ms = 5000
    /\ Len(boundaries) = 3

\* C7: for a source of positive duration the segmentation loop ends
\* without error in a list whose last boundary is final and ends at
\* total_duration_ms; SegmentationError occurs only for a duration <= 0.
\* Termination is stated by its variant: every step of the loop either
\* ends it or moves the cursor forward to a point before the end of the
\* source, so the remaining duration decreases and stays positive.
C7_Termination ==
    [][ /\ pc' = "SegmentationError" => total_len <= 0
        /\ pc' = "segmenting" => (total_len > 0 /\ cursor' < total_len)
        /\ pc = "segmenting" =>
              \/ pc' = "segmented"
              \/ (pc' = "segmenting" /\ cursor < cursor')
        /\ pc' = "segmented" =>
              /\ boundaries' # <<>>
              /\ boundaries'[Len(boundaries')].cut_strategy = "final"
              /\ boundaries'[Len(boundaries')].end_ms = total_len ]_vars

C7_Witness ==
    /\ pc = "segmented"
    /\ Len(boundaries) >= 4
    /\ boundaries[Len(boundaries)].end_ms = total_len

\* C8: thresholds are tried in configured order and the search stops at
\* the first one with a qualifying interval: no stricter threshold than
\* the one used yields an interval in the window, and the cut is the
\* midpoint of the earliest interval found at the threshold used.
C8_ThresholdOrder ==
    Segmenting =>
        \A i \in 1..Len(boundaries) :
            boundaries[i].cut_strategy = "silence" =>
                /\ \E k \in 1..Len(Thresholds) : Thresholds[k] = log[i].thresh
                /\ LET start == boundaries[i].start_ms
                       k == CHOOSE k \in 1..Len(Thresholds) : Thresholds[k] = log[i].thresh
                       found == SilencesAt(cfg, audio, start, k)
                       R == {found[n] : n \in 1..Len(found)}
                       earliest == CHOOSE r \in R : \A q \in R : r.s <= q.s
                       offset == boundaries[i].end_ms - WindowStart(cfg, start)
                   IN  /\ \A j \in 1..(k - 1) : SilencesAt(cfg, audio, start, j) = <<>>
                       /\ R # {}
                       /\ 2 * offset \in {earliest.s + earliest.e - 1, earliest.s + earliest.e}

C8_Witness ==
    /\ Segmenting
    /\ \E i \in 1..Len(boundaries) :
          /\ boundaries[i].cut_strategy = "silence"
          /\ log[i].thresh = -35
          /\ Len(SilencesAt(cfg, audio, boundaries[i].start_ms, 3)) >= 2
          /\ Len(SilencesAt(cfg, audio, boundaries[i].start_ms, 5)) >= 2

SegmentationRan == pc \in {"segmenting", "segmented", "SegmentationError"}

WholeSourceAsOneChunk ==
    /\ Len(boundaries) = 1
    /\ boundaries[1].start_ms = 0
    /\ boundaries[1].end_ms = total_len
    /\ boundaries[1].cut_strategy = "final"

\* C9 as stated: segmentation runs if and only if size_bytes >
\* max_size_bytes or duration_ms > max_duration_ms; otherwise the whole
\* source is one final chunk.
C9_AsStated ==
    pc # "entry" =>
        /\ SegmentationRan <=>
              (size_bytes > cfg.max_size_bytes \/ total_len > cfg.max_duration_ms)
        /\ ~SegmentationRan => WholeSourceAsOneChunk

\* C9: with chunking enabled, segmentation runs if and only if size_bytes >
\* max_size_bytes or duration_ms > max_duration_ms; with chunking disabled
\* it never runs; when it does not run the whole source is one final chunk.
C9_ChunkingDecision ==
    pc # "entry" =>
        /\ SegmentationRan <=>
              /\ cfg.chunking_enabled
              /\ (size_bytes > cfg.max_size_bytes \/ total_len > cfg.max_duration_ms)
        /\ ~SegmentationRan => WholeSourceAsOneChunk

C9_Witness ==
    /\ pc = "direct"
    /\ cfg.chunking_enabled
    /\ total_len = cfg.max_duration_ms
    /\ size_bytes = cfg.max_size_bytes
    /\ WholeSourceAsOneChunk

----------------------------------------------------------------------------
(* Properties of the orchestrator *)

OrchFinished == opc \in {"done", "TranscriptionFailedError"}

CeilDiv(n, b) == (n + b - 1) \div b

\* C10: N chunks with batch size B are dispatched in exactly ceil(N/B)
\* batches of consecutive chunk indices, each of size B except possibly the
\* last, of size N - B * (ceil(N/B) - 1); when every call succeeds exactly
\* N calls were made, one per chunk.
C10_BatchPartition ==
    OrchFinished =>
        LET N == NumChunks
            B == cfg.batch_size
            nb == CeilDiv(N, B)
        IN  /\ Len(batches) = nb
            /\ \A k \in 1..Len(batches) :
                  /\ Len(batches[k]) = IF k < nb THEN B ELSE N - B * (nb - 1)
                  /\ \A j \in 1..Len(batches[k]) : batches[k][j] = (k - 1) * B + j - 1
            /\ (\A i \in ChunkIndices : outcome[i] = "ok") =>
                  \A i \in ChunkIndices : calls[i] = 1

C10_Witness ==
    /\ opc = "done"
    /\ NumChunks = 8
    /\ cfg.batch_size = 5
    /\ \A i \in ChunkIndices : outcome[i] = "ok" /\ calls[i] = 1
    /\ Len(batches) = 2
    /\ Len(batches[1]) = 5
    /\ Len(batches[2]) = 3


BatchMembers(k) == {batches[k][j] : j \in 1..Len(batches[k])}

Settled(i) == outcome[i] \in {"ok", "failed"}

\* C11: no call of a batch is launched before every call of the batch
\* before it has settled, whatever the order in which the calls complete.
C11_BatchBarrier ==
    /\ \A k \in 1..Len(batches) :
          k < Len(batches) => \A i \in BatchMembers(k) : Settled(i)
    /\ batches # <<>> => in_flight \subseteq BatchMembers(Len(batches))

C11_Witness ==
    /\ Len(batches) >= 2
    /\ Cardinality(in_flight) >= 2
    /\ \E i \in BatchMembers(1) : outcome[i] = "failed"
    /\ \E i \in BatchMembers(1) : outcome[i] = "ok"
    /\ \E i \in BatchMembers(2) : Settled(i)

\* C12: at every moment of an orchestration run at most BATCH_SIZE
\* transcription calls are in flight.
C12_InFlightBound ==
    Cardinality(in_flight) <= cfg.batch_size

C12_Witness ==
    /\ cfg.batch_size = BATCH_SIZE
    /\ Cardinality(in_flight) = BATCH_SIZE
    /\ NumChunks > BATCH_SIZE


----------------------------------------------------------------------------
(* Properties of orchestration and merge together *)

MergedRange == {merged.segments[n] : n \in 1..Len(merged.segments)}

FailedChunks == {i \in ChunkIndices : outcome[i] = "failed"}
OkChunks == {i \in ChunkIndices : outcome[i] = "ok"}

\* Segment n of chunk i as it stands in the global timeline.
GlobalSegment(i, n) ==
    Segment(api_segments[i][n].start_time + boundaries[i + 1].start_ms,
            api_segments[i][n].end_time + boundaries[i + 1].start_ms,
            api_segments[i][n].text)

\* Segment n of chunk i starts inside the stretch of audio that chunk i
\* shares with chunk i - 1.
StartsInOverlap(i, n) ==
    /\ i > 0
    /\ boundaries[i].cut_strategy = "hard"
    /\ GlobalSegment(i, n).start_time < boundaries[i].end_ms

\* The merged segments run by chunk index, by position within a chunk and
\* by start time.
InGlobalOrder(segs) ==
    \A n, m \in 1..Len(segs) :
        n < m =>
            /\ segs[n].text[1] <= segs[m].text[1]
            /\ segs[n].text[1] = segs[m].text[1] => segs[n].text[2] < segs[m].text[2]
            /\ segs[n].start_time <= segs[m].start_time

ResultOf(i) ==
    ChunkResult(i, outcome[i], IF outcome[i] = "ok" THEN api_segments[i] ELSE <<>>)

\* The results of the first n chunks, by chunk index.
ResultsByIndex(n) == [k \in 1..n |-> ResultOf(k - 1)]

\* Number of chunks whose batch has been gathered.
GatheredChunks ==
    IF opc = "gather" THEN batch_start ELSE Min2(batch_start, NumChunks)

\* C14: the list of ChunkResults is a function of the per-chunk outcomes
\* alone, ordered by chunk index, whatever the order in which the calls of
\* a batch complete; the merged transcript is the merge of that list.
C14_CompletionOrderIndependence ==
    /\ results = ResultsByIndex(GatheredChunks)
    /\ opc \in {"done", "TranscriptionFailedError"} => results = ResultsByIndex(NumChunks)
    /\ opc = "done" => merged = MergeTranscript(ResultsByIndex(NumChunks), boundaries)

\* A later task of the batch has completed while an earlier one is still
\* in flight, after a first batch of mixed outcomes was gathered.
C14_Witness ==
    /\ Len(results) >= 2
    /\ \E k, l \in 1..Len(results) : results[k].status = "ok" /\ results[l].status = "failed"
    /\ \E i, j \in BatchMembers(Len(batches)) :
          i < j /\ i \in in_flight /\ outcome[j] \in {"ok", "failed"}

\* C15: the run ends in the aggregate TranscriptionFailedError exactly when
\* every chunk has failed, and only once every batch has been launched and
\* has settled; the error is final and leaves no merged transcript, and a
\* merged transcript is returned only when some chunk succeeded.
C15_TotalFailure ==
    [][ /\ opc # "TranscriptionFailedError"
        /\ opc' = "TranscriptionFailedError" =>
              /\ FailedChunks' = ChunkIndices
              /\ in_flight' = {}
              /\ \A i \in ChunkIndices : calls'[i] = 1
              /\ merged' = NoTranscript
        /\ opc' = "done" =>
              /\ OkChunks' # {}
              /\ merged' # NoTranscript ]_vars

C15_Witness ==
    /\ opc = "TranscriptionFailedError"
    /\ Len(batches) >= 2
    /\ FailedChunks = ChunkIndices
    /\ merged = NoTranscript

\* The segments the API returned for chunk i are in time order and lie
\* within the chunk.
WellFormedAnswer(i) ==
    /\ \A n \in 1..Len(api_segments[i]) :
          /\ 0 <= api_segments[i][n].start_time
          /\ api_segments[i][n].start_time <= api_segments[i][n].end_time
          /\ api_segments[i][n].end_time <= Duration(boundaries[i + 1])
    /\ \A n, m \in 1..Len(api_segments[i]) :
          n < m => api_segments[i][n].start_time <= api_segments[i][m].start_time

\* C16: in a successful merge of well-formed per-chunk segment lists the
\* start times of the merged segments are non-decreasing.
C16_MergedStartsOrdered ==
    (opc = "done" /\ \A i \in ChunkIndices : WellFormedAnswer(i)) =>
        \A n, m \in 1..Len(merged.segments) :
            n < m => merged.segments[n].start_time <= merged.segments[m].start_time

\* A merge over two hard cuts whose middle chunk failed, with speech at the
\* end of the first chunk and at the start of the third.
C16_Witness ==
    /\ opc = "done"
    /\ NumChunks = 3
    /\ boundaries[1].cut_strategy = "hard" /\ boundaries[2].cut_strategy = "hard"
    /\ outcome[0] = "ok" /\ outcome[1] = "failed" /\ outcome[2] = "ok"
    /\ \A i \in ChunkIndices : WellFormedAnswer(i)
    /\ \E n \in 1..Len(merged.segments) :
          /\ merged.segments[n].text[1] = 0
          /\ merged.segments[n].end_time = boundaries[1].end_ms
    /\ \E n \in 1..Len(merged.segments) :
          /\ merged.segments[n].text[1] = 2
          /\ merged.segments[n].start_time = boundaries[3].start_ms

\* Chunk j follows a hard cut whose chunk succeeded.
AfterSucceededHardCut(j) ==
    j > 0 /\ boundaries[j].cut_strategy = "hard" /\ outcome[j - 1] = "ok"

Dropped(j, n) == GlobalSegment(j, n) \notin MergedRange

C17_WitnessKept ==
    /\ opc = "done"
    /\ \E j \in OkChunks :
          /\ j > 0 /\ boundaries[j].cut_strategy = "hard" /\ outcome[j - 1] = "failed"
          /\ \E n \in 1..Len(api_segments[j]) :
                /\ GlobalSegment(j, n).start_time < boundaries[j].end_ms
                /\ ~Dropped(j, n)
    /\ \E j \in OkChunks :
          /\ j > 0 /\ boundaries[j].cut_strategy = "silence" /\ outcome[j - 1] = "ok"
          /\ \E n \in 1..Len(api_segments[j]) :
                /\ GlobalSegment(j, n).start_time = boundaries[j].end_ms
                /\ ~Dropped(j, n)

\* Every merged segment is a segment of a successful chunk, shifted by
\* the actual start of its chunk.
OnlyShiftedSegments ==
    \A m \in 1..Len(merged.segments) :
        \E i \in OkChunks : \E n \in 1..Len(api_segments[i]) :
            merged.segments[m] = GlobalSegment(i, n)

Unsubmitted == {i \in ChunkIndices : calls[i] = 0}

\* C19: once the caller has cancelled, no further batch is submitted and no
\* further call is launched; a call in flight leaves only by reaching its
\* own success or failure, and when the run stops as cancelled every call
\* that was launched has settled and its outcome is in the results.
C19_Cancellation ==
    [][ /\ cancelled =>
              /\ calls' = calls
              /\ batches' = batches
              /\ in_flight' \subseteq in_flight
              /\ \A i \in in_flight \ in_flight' : outcome'[i] \in {"ok", "failed"}
              /\ \A i \in ChunkIndices : outcome[i] # "none" => outcome'[i] = outcome[i]
        /\ opc' = "cancelled" =>
              /\ cancelled'
              /\ in_flight' = {}
              /\ \A i \in ChunkIndices \ Unsubmitted' :
                    /\ outcome'[i] \in {"ok", "failed"}
                    /\ \E k \in 1..Len(results') : results'[k] = ResultOf(i)' ]_vars

\* The run has stopped as cancelled with batches left: the calls of the
\* last submitted batch have settled both ways and are in the results, and
\* the chunks of the later batches were never called.
C19_Witness ==
    /\ opc = "cancelled"
    /\ cancelled
    /\ Unsubmitted # {}
    /\ Len(batches) >= 2
    /\ \E i, j \in BatchMembers(Len(batches)) : outcome[i] = "ok" /\ outcome[j] = "failed"
    /\ Len(results) = Cardinality(ChunkIndices \ Unsubmitted)

\* C20: a chunk artifact is consumed by at most one call, and by exactly
\* one when all batches have run; it is present while its call is in
\* flight, it is gone once the call's outcome is recorded, and it is
\* deleted only in the step in which its own call settles.
C20_ArtifactLifecycle ==
    [][ /\ \A i \in ChunkIndices : calls'[i] <= 1
        /\ opc' \in {"done", "TranscriptionFailedError"} =>
              \A i \in ChunkIndices : calls'[i] = 1
        /\ in_flight' \subseteq artifacts'
        /\ Unsubmitted' \subseteq artifacts'
        /\ \A i \in ChunkIndices : outcome'[i] \in {"ok", "failed"} => i \notin artifacts'
        /\ artifacts' \subseteq artifacts
        /\ \A i \in artifacts \ artifacts' :
              /\ i \in in_flight
              /\ outcome[i] = "none" /\ outcome'[i] \in {"ok", "failed"}
              /\ \A j \in ChunkIndices \ {i} : outcome'[j] = outcome[j] ]_vars

\* A call is in flight with its artifact present, a sibling call of the
\* batch has settled and its artifact is gone, the artifacts of an earlier
\* batch are gone and those of a later batch are untouched.
C20_Witness ==
    /\ opc = "gather"
    /\ Len(batches) >= 2
    /\ \E i, j \in BatchMembers(Len(batches)) :
          /\ i \in in_flight /\ i \in artifacts
          /\ outcome[j] \in {"ok", "failed"} /\ j \notin artifacts
    /\ BatchMembers(1) \cap artifacts = {}
    /\ Unsubmitted # {} /\ Unsubmitted \subseteq artifacts

----------------------------------------------------------------------------
(* Error propagation *)

\* The errors that end the job.
FatalErrors == {"TranscriptionFailedError", "MergeInconsistencyError"}

RunEnded == opc \in {"done"} \cup FatalErrors \cup ChunkErrors

\* C21: a job with at least one successful and at least one failed chunk,
\* whether the failure is an export error or a transcription request
\* error, ends with a MergedTranscript whose failed_chunk_indices is the
\* non-empty set of failed chunks; a per-chunk error never becomes the
\* outcome of the job, and the job ends in error only on total failure or
\* on a count mismatch between results and boundaries.
C21_PartialFailureCompletes ==
    /\ opc \notin ChunkErrors
    /\ \A i \in ChunkIndices : outcome[i] = "failed" <=> errors[i] \in ChunkErrors
    /\ (RunEnded /\ OkChunks # {} /\ FailedChunks # {}) =>
          /\ opc = "done"
          /\ merged # NoTranscript
          /\ merged.failed_chunk_indices = FailedChunks
          /\ merged.failed_chunk_indices # {}
    /\ opc = "TranscriptionFailedError" => OkChunks = {}
    /\ opc = "MergeInconsistencyError" => Len(results) # Len(boundaries)

\* A finished job with a successful chunk, a chunk whose export failed and
\* a chunk whose transcription request failed.
C21_Witness ==
    /\ opc = "done"
    /\ OkChunks # {}
    /\ \E i, j \in FailedChunks :
          /\ errors[i] = "ChunkExportError"
          /\ errors[j] = "TranscriptionRequestError"
    /\ Cardinality(merged.failed_chunk_indices) = 2
    /\ Len(merged.segments) >= 1

\* C22: merge raises MergeInconsistencyError whenever the number of
\* ChunkResults differs from the number of boundaries, and then produces
\* no MergedTranscript.
C22_MergeInconsistency ==
    (opc # "merge" /\ Len(results) # Len(boundaries)) =>
        /\ opc = "MergeInconsistencyError"
        /\ merged = NoTranscript

\* merge was called with one result missing, the results present being
\* successful ones with segments.
C22_Witness ==
    /\ opc = "MergeInconsistencyError"
    /\ Len(results) = Len(boundaries) - 1
    /\ \E k \in 1..Len(results) : results[k].status = "ok" /\ results[k].segments # <<>>
    /\ merged = NoTranscript

\* Number of batches whose gather has returned.
CompletedBatches == IF opc = "gather" THEN Len(batches) - 1 ELSE Len(batches)

\* C23: the progress sink has received exactly one update per completed
\* batch, and an update is sent only in a step in which no call is in
\* flight, never between the settling of two calls of a batch.
C23_ProgressPerBatch ==
    [][ /\ progress_updates' = CompletedBatches'
        /\ progress_updates' # progress_updates =>
              /\ progress_updates' = progress_updates + 1
              /\ in_flight = {} /\ in_flight' = {}
              /\ outcome' = outcome ]_vars

\* One batch of several chunks has completed with one update; in the
\* second batch a call has settled and another is still in flight.
C23_Witness ==
    /\ opc = "gather"
    /\ Len(batches) = 2
    /\ Len(batches[1]) >= 2
    /\ progress_updates = 1
    /\ \E i, j \in BatchMembers(2) : i \in in_flight /\ outcome[j] \in {"ok", "failed"}

----------------------------------------------------------------------------
(* Chunking disabled *)

\* Number of transcription calls made so far.
RECURSIVE SumCalls(_)
SumCalls(n) == IF n = 0 THEN 0 ELSE calls[n - 1] + SumCalls(n - 1)

TotalCalls == SumCalls(Cardinality(DOMAIN calls))

\* C24: with chunking disabled the segmenter never runs, whatever the size
\* and the duration of the file; the whole source is one final chunk and
\* it is transcribed in a single call.
C24_ChunkingDisabled ==
    ~cfg.chunking_enabled =>
        /\ ~SegmentationRan
        /\ pc = "direct" => WholeSourceAsOneChunk
        /\ TotalCalls <= 1
        /\ opc = "direct_call" => TotalCalls = 1

\* A file over both limits, chunking disabled, sent in one call.
C24_Witness ==
    /\ ~cfg.chunking_enabled
    /\ size_bytes > cfg.max_size_bytes
    /\ total_len > cfg.max_duration_ms
    /\ total_len > cfg.max_chunk_ms
    /\ opc = "direct_call"
    /\ WholeSourceAsOneChunk
    /\ TotalCalls = 1

----------------------------------------------------------------------------
(* Properties of the processing page *)

\* Some handler of a terminal status, or of a successful cancel, has run.
TerminalHandled ==
    pm_calls.onComplete + pm_calls.onFailed + pm_calls.onCancelled > 0

\* Request r is handled in this step with the status st it carried.
Handles(r, st) ==
    /\ r \in 1..Len(pm_reqs)
    /\ pm_reqs[r] = st
    /\ pm_reqs'[r] = "handled"

\* C25: a ProcessingManager started with a job_id has issued a status
\* request at once; its interval stays set while only queued or processing
\* is reported and is cleared by the first response carrying completed,
\* failed or cancelled; a completed response schedules the redirect to
\* results.html?job=<jobId>, and the page is sent nowhere else than to the
\* upload page or to that address.
C25_PollingLifecycle ==
    [][ pm_jobId # "" =>
          /\ Len(pm_reqs) >= 1
          /\ pm_pollInterval' <=> ~TerminalHandled'
          /\ \A r \in 1..Len(pm_reqs) :
                /\ \A st \in {"queued", "processing"} :
                      Handles(r, st) => pm_pollInterval' = pm_pollInterval
                /\ \A st \in TerminalStatuses :
                      Handles(r, st) => ~pm_pollInterval'
                /\ Handles(r, "completed") =>
                      /\ pm_timers' # <<>>
                      /\ pm_timers'[Len(pm_timers')] = Url("results.html", "job", pm_jobId)
          /\ pm_location' \in {NoLocation, Url("upload.html", "", ""),
                               Url("results.html", "job", pm_jobId)}
          /\ pm_location' = Url("results.html", "job", pm_jobId) =>
                pm_calls'.onComplete >= 1 ]_vars

\* The page polled while the job was queued or processing, stopped on the
\* completed response and went to the results page of the job.
C25_Witness ==
    /\ pm_jobId = "job-1"
    /\ Len(pm_reqs) >= 2
    /\ pm_calls.updateUI >= 2
    /\ pm_calls.onComplete = 1
    /\ ~pm_pollInterval
    /\ pm_location = Url("results.html", "job", "job-1")

----------------------------------------------------------------------------
(* Properties of the upload page *)

HasDot(name) == \E k \in 1..Len(name) : name[k] = Dot

\* The extension of a file name: the text after its last ".", lower-cased;
\* a name without "." has none.
LastDot(name) == CHOOSE k \in 1..Len(name) :
                    name[k] = Dot /\ \A j \in (k + 1)..Len(name) : name[j] # Dot

LowerCasedExtension(name) ==
    LET ext == SubSeq(name, LastDot(name) + 1, Len(name))
    IN  [k \in 1..Len(ext) |-> ToLowerCase(ext[k])]

HasAllowedExtension(name) ==
    /\ HasDot(name)
    /\ \E k \in 1..Len(allowedFormats) : LowerCasedExtension(name) = <<allowedFormats[k]>>

Acceptable(file) == HasAllowedExtension(file.name) /\ file.size <= 500 * 1024 * 1024

\* C26 as stated: a file is handed to apiClient.uploadFile only if its
\* lower-cased extension is one of mp3, wav, mp4, mov, m4a, ogg, webm and
\* its size is at most 500 MB; a rejected file gives an error message and
\* no request; only the first file of a selection is considered.
C26_AsStated ==
    [][ up_events' # up_events =>
          /\ up_selected' = <<>> => (up_sent' = up_sent /\ up_errors' = up_errors)
          /\ up_selected' # <<>> =>
                IF Acceptable(up_selected'[1])
                THEN /\ up_sent' = Append(up_sent, up_selected'[1])
                     /\ up_errors' = up_errors
                ELSE /\ up_sent' = up_sent
                     /\ Len(up_errors') = Len(up_errors) + 1 ]_vars

\* What the code guarantees: the same with the extension taken as the last
\* piece of the name split at ".", which is the whole name when the name
\* has no ".".
C26_LastPieceRule ==
    [][ up_events' # up_events =>
          /\ up_selected' = <<>> => (up_sent' = up_sent /\ up_errors' = up_errors)
          /\ up_selected' # <<>> =>
                LET file == up_selected'[1]
                    piece == IF HasDot(file.name) THEN LowerCasedExtension(file.name)
                             ELSE [k \in 1..Len(file.name) |-> ToLowerCase(file.name[k])]
                IN  IF (\E k \in 1..Len(allowedFormats) : piece = <<allowedFormats[k]>>)
                       /\ file.size <= 500 * 1024 * 1024
                    THEN /\ up_sent' = Append(up_sent, file)
                         /\ up_errors' = up_errors
                    ELSE /\ up_sent' = up_sent
                         /\ Len(up_errors') = Len(up_errors) + 1 ]_vars

\* A file without extension whose whole name is "mp3" has been uploaded.
C26_Witness ==
    /\ up_sent # <<>>
    /\ ~HasDot(up_sent[Len(up_sent)].name)
    /\ Len(up_selected) = 2
    /\ up_selected[1] = up_sent[Len(up_sent)]

----------------------------------------------------------------------------
(* Polling under failed requests, overlapping requests and cancellation *)

\* Request r is the one whose failure the step logs.
LogsError(r) == pm_reqs[r] = "error" /\ pm_reqs'[r] = "logged"

\* Some request before r failed and was logged.
FailedBefore(r) == \E q \in 1..(r - 1) : pm_reqs[q] = "logged"

\* pollStatus: the callback run for a terminal status.
CallbackOf(st) ==
    IF st = "completed" THEN "onComplete"
    ELSE IF st = "failed" THEN "onFailed"
    ELSE "onCancelled"

\* C28: a failed status request (network error, timeout, non-OK response)
\* does not stop the polling: the step that handles the failure leaves the
\* interval, the callbacks, the scheduled redirects and the location as
\* they were, and a terminal status that arrives after a failure is handled
\* as any other: polling stops and the callback of that status runs.
C28_ErrorKeepsPolling ==
    [][ \A r \in 1..Len(pm_reqs) :
          /\ LogsError(r) =>
                /\ pm_pollInterval' = pm_pollInterval
                /\ pm_calls' = pm_calls
                /\ pm_timers' = pm_timers
                /\ pm_location' = pm_location
                /\ pm_ui' = pm_ui
          /\ (FailedBefore(r) /\ pm_reqs[r] \in TerminalStatuses /\ pm_reqs'[r] = "handled") =>
                /\ pm_ui' = pm_reqs[r]
                /\ pm_calls'[CallbackOf(pm_reqs[r])] = pm_calls[CallbackOf(pm_reqs[r])] + 1
                /\ ~pm_pollInterval' ]_vars

\* A request failed while the interval was active, the interval went on, and
\* a later request brought "completed", which was handled: the interval is
\* cleared and the redirect to the results page is scheduled.
C28_Witness ==
    \E q, r \in 1..Len(pm_reqs) :
        /\ q < r
        /\ pm_reqs[q] = "logged"
        /\ pm_reqs[r] = "handled"
        /\ pm_ui = "completed"
        /\ pm_calls.onComplete = 1
        /\ pm_timers = <<ResultsUrl(pm_jobId)>>
        /\ ~pm_pollInterval

\* C29 as stated: for one job onComplete runs at most once, so at most one
\* redirect to the results page is scheduled, whatever the interleaving of
\* the status responses.
C29_AsStated == pm_calls.onComplete <= 1

\* C30 as stated: once cancelJob has succeeded (polling stopped, onCancelled
\* run), no status response updates the progress UI or triggers onComplete
\* or onFailed.
C30_AsStated ==
    [][ pm_cancel = "succeeded" =>
          /\ pm_calls'.updateUI = pm_calls.updateUI
          /\ pm_calls'.onComplete = pm_calls.onComplete
          /\ pm_calls'.onFailed = pm_calls.onFailed
          /\ pm_ui' = pm_ui ]_vars

----------------------------------------------------------------------------
(* Properties of the recording page *)

\* The recorder held by the manager has been paused and not resumed.
RecordingPaused ==
    mediaRecorder # 0 /\ rec_recorders[mediaRecorder].state = "paused"

\* The step resumes the paused recorder.
Resumes ==
    /\ RecordingPaused
    /\ Len(rec_recorders') = Len(rec_recorders)
    /\ rec_recorders'[mediaRecorder].state = "recording"

\* C27 as stated: the elapsed time of the recording timer advances only
\* while a recording is in progress and not paused, so it stands still from
\* pauseRecording on and from stopRecording on, and resumeRecording goes on
\* from exactly the frozen value: neither reset nor moved past the pause.
C27_AsStated ==
    [][ /\ rec_elapsedTime' > rec_elapsedTime => (rec_isRecording /\ ~RecordingPaused)
        /\ Resumes => /\ rec_elapsedTime' = rec_elapsedTime
                      /\ rec_startTime' = rec_now - rec_elapsedTime ]_vars

\* C31 as stated: in every state reachable by record, pause/resume and
\* cancel clicks, isPaused implies isRecording.
C31_AsStated == rec_isPaused => rec_isRecording

\* The step is a confirmed cancelRecording().
Cancels ==
    /\ rec_location' = Url("upload.html", "", "")
    /\ ~rec_isRecording' /\ ~rec_isPaused'
    /\ rec_elapsedTime' = 0 /\ rec_mediaStream' = 0 /\ rec_timerInterval' = 0
    /\ rec_recorders' = IF rec_mediaStream # 0
                        THEN TracksEnded(Stopped(rec_recorders, mediaRecorder), rec_mediaStream)
                        ELSE rec_recorders

\* Recorders whose stop event, and with it onRecordingComplete, is still to come.
AwaitingStop == {i \in 1..Len(rec_recorders) : rec_recorders[i].state = "stopping"}

\* C32 as stated: a confirmed cancelRecording never leads to the
\* recording-complete path: the cancel leaves no recorder it stopped on the
\* way to onRecordingComplete, and once the page has been sent to
\* upload.html neither onRecordingComplete runs nor a redirect to
\* processing.html is scheduled or taken.
C32_AsStated ==
    [][ /\ Cancels => AwaitingStop' \subseteq AwaitingStop
        /\ rec_location = Url("upload.html", "", "") =>
              /\ rec_calls'.onRecordingComplete = rec_calls.onRecordingComplete
              /\ rec_redirects' <= rec_redirects
              /\ rec_location' = rec_location ]_vars

\* The MediaRecorders that are recording or paused.
ActiveRecorders == {i \in 1..Len(rec_recorders) : rec_recorders[i].state \in ActiveStates}

\* C33 as stated: at any time there is at most one timer interval set and
\* not cleared and at most one active MediaRecorder, and an interval that
\* is set is the one stopTimer would clear.
C33_AsStated ==
    /\ Cardinality(rec_intervals) <= 1
    /\ Cardinality(ActiveRecorders) <= 1
    /\ rec_intervals \subseteq {rec_timerInterval}

----------------------------------------------------------------------------
(* Properties of the settings page *)

\* The settings in effect at the last load or save: the persisted values,
\* or the defaults when nothing is persisted.
SettingsInEffect == IF set_stored # <<>> THEN set_stored[1] ELSE DefaultSettings

\* C34 as stated: cancelChanges with unsaved changes and a confirming user
\* leaves the in-memory settings equal to the settings in effect at the
\* last load or save and hasChanges false; with a declining user settings
\* and hasChanges are unchanged.
C34_AsStated ==
    [][ /\ (set_hasChanges /\ set_click' = "cancel confirmed" /\ set_events' # set_events) =>
              /\ set_settings' = SettingsInEffect
              /\ ~set_hasChanges'
        /\ (set_click' = "cancel declined" /\ set_events' # set_events) =>
              /\ set_settings' = set_settings
              /\ set_hasChanges' = set_hasChanges ]_vars

----------------------------------------------------------------------------
(* Properties of the sharing dialog *)

\* No two collaborators have the same e-mail.
UniqueEmails ==
    \A j, k \in 1..Len(perm_collaborators) :
        perm_collaborators[j].email = perm_collaborators[k].email => j = k

\* The e-mails of the collaborators.
Emails(collaborators) == {collaborators[k].email : k \in 1..Len(collaborators)}

\* The text has the shape local@domain.tld without white space: one "@",
\* something before it, and a "." inside what follows it.
WellFormed(email) ==
    LET ats == {k \in 1..Len(email) : email[k] = At}
    IN  /\ Cardinality(ats) = 1
        /\ Space \notin {email[k] : k \in 1..Len(email)}
        /\ \A a \in ats :
              /\ a > 1
              /\ \E p \in (a + 1)..Len(email) : email[p] = Dot /\ p > a + 1 /\ p < Len(email)

\* The step handles a click on Invite.
InviteStep == perm_events' # perm_events /\ perm_click'.kind = "invite"

\* C35: the collaborators never contain the same e-mail twice, after any
\* sequence of invites, role changes and removals; an invite with an e-mail
\* already present leaves the list unchanged and reports "User already has
\* access"; an invite with an empty or malformed e-mail adds nothing; role
\* changes and removals add no e-mail.
C35_UniqueEmails ==
    [][ /\ UniqueEmails /\ UniqueEmails'
        /\ InviteStep =>
              LET email == Trim(perm_click'.text)
              IN  /\ email \in Emails(perm_collaborators) =>
                        /\ perm_collaborators' = perm_collaborators
                        /\ perm_toast' = "User already has access"
                  /\ (email = <<>> \/ ~WellFormed(email)) =>
                        perm_collaborators' = perm_collaborators
        /\ ~InviteStep => Emails(perm_collaborators') \subseteq Emails(perm_collaborators)
      ]_vars

\* After a removal, an invite was accepted and a second invite, whose text
\* trims to the same e-mail, was turned down with "User already has access".
C35_Witness ==
    /\ perm_click.kind = "invite"
    /\ perm_toast = "User already has access"
    /\ Len(perm_collaborators) = 2
    /\ Len(perm_click.text) > Len(Trim(perm_click.text))
    /\ perm_collaborators[2].email = Trim(perm_click.text)
    /\ perm_collaborators[2].id > 2

----------------------------------------------------------------------------
(* Durations and coverage of the boundaries *)

DurationOf(b) == b.end_ms - b.start_ms

\* C36: every boundary the segmenter emits lasts at most MAX_MS; every
\* boundary but the final one, cut at a silence or hard, lasts at least
\* MIN_MS; the final boundary may be shorter and lasts more than nothing.
C36_BoundaryDurations ==
    Segmenting =>
        \A i \in 1..Len(boundaries) :
            /\ DurationOf(boundaries[i]) <= cfg.max_chunk_ms
            /\ DurationOf(boundaries[i]) > 0
            /\ boundaries[i].cut_strategy # "final" =>
                  DurationOf(boundaries[i]) >= cfg.min_chunk_ms
            /\ boundaries[i].cut_strategy = "final" =>
                  (pc = "segmented" /\ i = Len(boundaries))

\* A finished segmentation with a silence cut right at the start of the
\* search window, a hard cut, and a final boundary shorter than MIN_MS.
C36_Witness ==
    /\ pc = "segmented"
    /\ \E i \in 1..Len(boundaries) :
          /\ boundaries[i].cut_strategy = "silence"
          /\ DurationOf(boundaries[i]) < cfg.max_chunk_ms
    /\ \E i \in 1..Len(boundaries) : boundaries[i].cut_strategy = "hard"
    /\ DurationOf(boundaries[Len(boundaries)]) < cfg.min_chunk_ms

\* The boundaries whose [start_ms, end_ms) holds instant t.
Covering(t) ==
    {i \in 1..Len(boundaries) : boundaries[i].start_ms <= t /\ t < boundaries[i].end_ms}

\* The instant lies in the overlap_ms-long region before a hard cut.
InOverlapBeforeHardCut(t) ==
    \E i \in 1..Len(boundaries) :
        /\ boundaries[i].cut_strategy = "hard"
        /\ boundaries[i].end_ms - cfg.overlap_ms <= t
        /\ t < boundaries[i].end_ms

\* The instants at which the set of covering boundaries, or the membership
\* in an overlap region, can change: between two of them both stay the same.
ChangePoints ==
    {0} \cup {boundaries[i].start_ms : i \in 1..Len(boundaries)}
        \cup {boundaries[i].end_ms : i \in 1..Len(boundaries)}
        \cup {boundaries[i].end_ms - cfg.overlap_ms : i \in 1..Len(boundaries)}

\* Every instant of a short source; the change points of a long one.
Instants ==
    IF total_len <= MaxSlots
    THEN 0..(total_len - 1)
    ELSE {t \in ChangePoints : 0 <= t /\ t < total_len}

\* C37: the boundaries of a finished segmentation cover the source without
\* gaps: the first starts at 0, the last ends at total_duration_ms, every
\* instant of [0, total_duration_ms) lies in at least one boundary, and an
\* instant lying in two lies in the overlap region before a hard cut; none
\* lies in three.
C37_Coverage ==
    /\ (Segmenting /\ boundaries # <<>>) => boundaries[1].start_ms = 0
    /\ pc = "segmented" =>
          /\ boundaries[Len(boundaries)].end_ms = total_len
          /\ \A i \in 1..Len(boundaries) :
                0 <= boundaries[i].start_ms /\ boundaries[i].end_ms <= total_len
          /\ \A t \in Instants :
                /\ Cardinality(Covering(t)) >= 1
                /\ Cardinality(Covering(t)) <= 2
                /\ Cardinality(Covering(t)) = 2 => InOverlapBeforeHardCut(t)

\* A finished segmentation with a hard cut followed by a silence cut: some
\* instants lie in two boundaries, the others in one.
C37_Witness ==
    /\ pc = "segmented"
    /\ Len(boundaries) >= 3
    /\ \E i \in 1..(Len(boundaries) - 1) :
          /\ boundaries[i].cut_strategy = "hard"
          /\ boundaries[i + 1].cut_strategy = "silence"
    /\ \E t \in Instants : Cardinality(Covering(t)) = 2
    /\ \E t \in Instants : Cardinality(Covering(t)) = 1

====
